---- MODULE Spec2Model ----
(***************************************************************************)
(* Realtime fan-out gateway of kienphan283/stock_backend.                  *)
(*                                                                         *)
(* Two gateway implementations live in the repository:                     *)
(*   "ws"  WebSocketService  (expressjs-server/src/core/services/          *)
(*         websocket.service.ts): Redis PubSub listener, rooms named       *)
(*         symbol:<symbol>, event name "trade".                            *)
(*   "ss"  SocketService     (gateway-service, src/unnamed/part_007):      *)
(*         Redis Streams bridge + optional mock emitter, rooms named by    *)
(*         the bare symbol.                                                *)
(* One gateway instance runs one of them; impl is fixed at Init.           *)
(* The class RedisWebSocketBridge (./redis-bridge) is imported by          *)
(* SocketService but its source is not part of src/; its read/ack cycle is *)
(* modelled from spec.md section 4.3.                                      *)
(*                                                                         *)
(* Emission is synchronous inside the handler that dispatches a message,   *)
(* so the frames of one dispatch are observed in the step that dispatches  *)
(* it: sent holds the frames the last step wrote to each socket, last      *)
(* names the dispatch that wrote them, and seq numbers the dispatches.     *)
(***************************************************************************)
EXTENDS Integers, Sequences, FiniteSets, TLC

\* ---------------------------------------------------------------- bounds
MaxMsgs == 3        \* messages dispatched into the gateway in one run
MaxEntries == 2     \* entries appended to the per-stream log
MaxBus == 2         \* messages published to one bus topic
MaxFaults == 5      \* flush failures and crashes of one consumer loop
MaxRows == 3        \* rows of the trades table at the volume migrations
MaxCalls == 3       \* calls of redisClient() in one process

\* ------------------------------------------------------------ input sets
Sockets == {"s1", "s2"}
Tickers == {"AAPL", "MSFT"}
SubStrings == {"AAPL", "MSFT", "aapl"}
\* subscribe / unsubscribe payloads: string | {symbol?: string};
\* symbol = "" in an object stands for an absent (undefined) symbol field
StringPayloads == {[kind |-> "string", symbol |-> s] : s \in SubStrings}
ObjectPayloads == {[kind |-> "object", symbol |-> "AAPL"], [kind |-> "object", symbol |-> ""]}
Payloads == StringPayloads \cup ObjectPayloads
PayloadTypes == {"trade", "bar"}
\* symbol field of a message published on the Redis channel ("" = missing)
MsgSymbols == Tickers \cup {""}
\* entries of the per-stream log: fields symbol and data; ok = data is valid
\* JSON with a non-empty symbol
LogEntries ==
  {[symbol |-> "AAPL", type |-> "trade", ok |-> TRUE],
   [symbol |-> "MSFT", type |-> "bar", ok |-> TRUE],
   [symbol |-> "AAPL", type |-> "trade", ok |-> FALSE]}

VARIABLES
  impl,              \* "ws" | "ss": which gateway class this instance runs
  pc,                \* ws: constructed/initialized/closing/closed; ss: running/stopped
  io,                \* WebSocketService.io: "null" | "open" (ss: always "open")
  listener,          \* ws Redis subscription: off/subscribing/on/failed
  sock,              \* socket lifecycle: new -> open -> closed
  rooms,             \* socket.rooms (socket.io room membership)
  connectedClients,  \* WebSocketService.connectedClients
  sent,              \* frames the last step wrote to each socket, in order
  last,              \* what the last step handled: a dispatch (op, symbol, payload type)
                     \* or a client event (op, socket, payload symbol, payload kind)
  seq,               \* number of messages dispatched so far
  greeted,           \* history: number of connected frames sent to each socket
  mockFlag,          \* process.env.MOCK_REALTIME_WS === "true"
  mockStarted,       \* SocketService.stopMockRealtime is set and its intervals live
  bridge,            \* RedisWebSocketBridge: starting/started/failed/stopped
  broadcastGlobal,   \* bridge also emits globally (spec.md 4.3 item 2, optional)
  stream,            \* the per-stream log (appended entries)
  lastId,            \* last entry delivered to the consumer group
  pending,           \* the consumer's pending-entries list
  acked,             \* acknowledged entries
  delivered,         \* history: entries whose dispatch succeeded
  dropped,           \* history: entries dropped as malformed
  failed,            \* history: entries whose broadcast failed at least once
  lastSub,           \* history: symbols whose last frame from the socket was subscribe
  logged,            \* the last step wrote an error line to the logger
  loop,              \* Stream Processor: the consumer loop observed (its topic)
  bus,               \* the loop's bus topic partition (published messages)
  pos,               \* the consumer's in-memory read position
  committed,         \* the consumer group's committed offset
  buffer,            \* the loop's in-memory batch
  table,             \* rows of the loop's fact table, in insertion order
  plog,              \* records the loop appended to the per-stream log
  fails,             \* consecutive flush failures
  degraded,          \* the health-degraded signal
  faults,            \* flush failures and crashes so far
  vrows,             \* stock_trades_realtime at the volume migrations: rows
                     \* (stock_id, ts, size, volume), trade_id = position
  vphase,            \* legacy (no volume column) / migrated (003) / backfilled
  mbar,              \* the bar payloads the last mock bar tick created
  redisUp,           \* environment: Redis accepts connections
  rconn,             \* RedisStreamClient subscriber: connecting/ready/reconnecting/ended
  retries,           \* the retries argument of the next reconnectStrategy call
  http,              \* httpServer: idle/listening/closing/closed
  exited,            \* the process has exited
  rq,                \* REST: the request being served
  ups,               \* REST: what the upstream service did with the call
  upq,               \* REST: the upstream calls the handler issued (at most one)
  route,             \* REST: the handler that served the request
  rs,                \* REST: the response sent to the client
  rcfg,              \* redisClient: the module variant built and its config
  client,            \* redisClient: the module-level client (<<>> is null)
  made,              \* redisClient: number of Redis instances constructed
  connects,          \* redisClient: number of connect() calls initiated
  rcConn,            \* redisClient: connection of the instance: none/connecting/ready/failed
  got,               \* redisClient: history of calls (instance returned, connection seen)
  input,             \* the arguments of the function call observed
  outcome            \* how that call settled

vars ==
  <<impl, pc, io, listener, sock, rooms, connectedClients, sent, last, seq,
    greeted, mockFlag, mockStarted, bridge, broadcastGlobal, stream, lastId,
    pending, acked, delivered, dropped, failed, lastSub, logged,
    loop, bus, pos, committed, buffer, table, plog, fails, degraded, faults,
    vrows, vphase, mbar, redisUp, rconn, retries, http, exited,
    rq, ups, upq, route, rs,
    rcfg, client, made, connects, rcConn, got, input, outcome>>

gatewayVars == <<impl, pc, io, listener, mockFlag, mockStarted, broadcastGlobal>>
clientVars == <<sock, rooms, connectedClients, greeted, lastSub>>
logVars == <<stream, lastId, pending, acked, delivered, dropped, failed>>
procVars ==
  <<loop, bus, pos, committed, buffer, table, plog, fails, degraded, faults>>
\* the gateway, its clients and the fan-out bridge
coreVars ==
  <<impl, pc, io, listener, sock, rooms, connectedClients, sent, last, seq,
    greeted, mockFlag, mockStarted, bridge, broadcastGlobal, stream, lastId,
    pending, acked, delivered, dropped, failed, lastSub, logged>>
\* everything outside the gateway, its clients and the fan-out bridge
volVars == <<vrows, vphase>>
mockVars == <<mbar>>
lifeVars == <<redisUp, rconn, retries, http, exited>>
\* the components other than the gateway process
restVars == <<rq, ups, upq, route, rs>>
rcVars == <<rcfg, client, made, connects, rcConn, got>>
callVars == <<input, outcome>>
otherVars == <<procVars, volVars, mockVars, restVars, rcVars, callVars>>
extVars == <<otherVars, lifeVars>>
\* everything but the Stream Processor loop / the volume migrations / the
\* mock payloads
nonProcVars == <<coreVars, volVars, mockVars, lifeVars, restVars, rcVars, callVars>>
nonVolVars == <<coreVars, procVars, mockVars, lifeVars, restVars, rcVars, callVars>>
nonMockVars == <<coreVars, procVars, volVars, lifeVars, restVars, rcVars, callVars>>
nonRestVars == <<coreVars, procVars, volVars, mockVars, lifeVars, rcVars, callVars>>
nonRcVars == <<coreVars, procVars, volVars, mockVars, lifeVars, restVars, callVars>>
nonCallVars == <<coreVars, procVars, volVars, mockVars, lifeVars, restVars, rcVars>>

\* Stream Processor: one consumer loop per bus topic
Topics == {"trades", "bars"}
\* messages on the trades topic: two trades of one symbol, one of size 0
TradeMsgs ==
  {[type |-> "trade", symbol |-> "AAPL", ts |-> 1, price |-> 10, size |-> 1],
   [type |-> "trade", symbol |-> "AAPL", ts |-> 2, price |-> 10, size |-> 0]}
\* messages on the bars topic: a well-formed bar and the bar of spec.md 8,
\* scenario 3 (high below open)
BarMsgs ==
  {[type |-> "bar", symbol |-> "AAPL", ts |-> 1,
    open |-> 10, high |-> 12, low |-> 9, close |-> 11],
   [type |-> "bar", symbol |-> "AAPL", ts |-> 2,
    open |-> 10, high |-> 9, low |-> 8, close |-> 9]}
\* a bus value that is not parseable JSON
Garbage == [type |-> "garbage"]
BusMsgs(t) == (IF t = "trades" THEN TradeMsgs ELSE BarMsgs) \cup {Garbage}

\* ------------------------------------------------------ pure functions

\* String.prototype.toUpperCase on the strings of the model
toUpperCase(s) == IF s = "aapl" THEN "AAPL" ELSE s

\* JS truthiness of a string | undefined
Truthy(s) == s # ""

\* `symbol:${symbol}` in WebSocketService: the template literal coerces the
\* argument to a string; an object payload becomes "[object Object]"
WsSymbolText(p) == IF p.kind = "string" THEN p.symbol ELSE "[object Object]"

WsRoom(sym) == "symbol:" \o sym

\* mutant: only the bare-string form is read, an object payload yields
\* no symbol
SsSymbol_StringOnly(p) == IF p.kind = "string" THEN p.symbol ELSE ""

\* typeof payload === "string" ? payload : payload?.symbol ?? undefined
SsSymbol(p) == p.symbol

\* the room a handler joins/leaves for a symbol, which is also the room the
\* per-symbol broadcast (broadcastToSymbol / emitToSymbol) emits to
RoomOf(sym) == IF impl = "ws" THEN WsRoom(sym) ELSE sym

\* event name by payload type
EventFor(type) == type \o "_update"

Frame(name, sym, type, via) ==
  [name |-> name, symbol |-> sym, type |-> type, via |-> via, id |-> seq + 1]

ConnectedFrame ==
  [name |-> "connected", symbol |-> "", type |-> "", via |-> "socket", id |-> 0]

NoFrames == [c \in Sockets |-> <<>>]
NoDispatch == [op |-> "none", sock |-> "", symbol |-> "", type |-> ""]

Open == {c \in Sockets : sock[c] = "open"}

\* io.emit(event, payload): every connected socket of the server
EmitAll(out, f) ==
  [c \in Sockets |-> IF c \in Open THEN Append(out[c], f) ELSE out[c]]

\* mutant: the room filter is lost, the frame goes to every connected socket
EmitRoom_NoRoomFilter(out, room, f) ==
  [c \in Sockets |-> IF c \in Open THEN Append(out[c], f) ELSE out[c]]

\* io.to(room).emit(event, payload): the connected sockets that joined room
EmitRoom(out, room, f) ==
  [c \in Sockets |->
     IF c \in Open /\ room \in rooms[c] THEN Append(out[c], f) ELSE out[c]]

\* a step that dispatches nothing
Quiet ==
  sent' = NoFrames /\ last' = NoDispatch /\ logged' = FALSE /\ UNCHANGED seq

\* a step that dispatches nothing and logs an error when err holds
QuietError(err) ==
  sent' = NoFrames /\ last' = NoDispatch /\ logged' = err /\ UNCHANGED seq

\* a step that handles a client event of socket c and emits nothing
ClientEvent(op, c, sym, kind) ==
  /\ sent' = NoFrames
  /\ last' = [op |-> op, sock |-> c, symbol |-> sym, type |-> kind]
  /\ logged' = FALSE
  /\ UNCHANGED seq

\* a step that dispatches one message
Dispatched(op, sym, type, out) ==
  /\ seq < MaxMsgs
  /\ seq' = seq + 1
  /\ last' = [op |-> op, sock |-> "", symbol |-> sym, type |-> type]
  /\ sent' = out
  /\ logged' = FALSE

\* ------------------------------------------------------------------ Init

GatewayInit ==
  /\ impl \in {"ws", "ss"}
  /\ pc = IF impl = "ws" THEN "constructed" ELSE "running"
  /\ io = IF impl = "ws" THEN "null" ELSE "open"
  /\ listener = "off"
  /\ sock = [c \in Sockets |-> "new"]
  /\ rooms = [c \in Sockets |-> {}]
  /\ connectedClients = {}
  /\ sent = NoFrames
  /\ last = NoDispatch
  /\ seq = 0
  /\ greeted = [c \in Sockets |-> 0]
  /\ mockFlag \in (IF impl = "ss" THEN BOOLEAN ELSE {FALSE})
  \* SocketService constructor: startBridge() is called unconditionally, then
  \* the mock emitter is started when the flag is set
  /\ mockStarted = mockFlag
  /\ bridge = IF impl = "ss" THEN "starting" ELSE "stopped"
  /\ broadcastGlobal \in (IF impl = "ss" THEN BOOLEAN ELSE {FALSE})
  /\ stream = <<>>
  /\ lastId = 0
  /\ pending = {}
  /\ acked = {}
  /\ delivered = {}
  /\ dropped = {}
  /\ failed = {}
  /\ lastSub = [c \in Sockets |-> {}]
  /\ logged = FALSE

\* a Stream Processor consumer loop at start: nothing consumed, nothing stored
ProcInit ==
  /\ bus = <<>>
  /\ pos = 0
  /\ committed = 0
  /\ buffer = <<>>
  /\ table = <<>>
  /\ plog = <<>>
  /\ fails = 0
  /\ degraded = FALSE
  /\ faults = 0

\* the trades loop, not started
ProcIdle == loop = "trades" /\ ProcInit

\* the trades table before the volume migrations, empty
VolInit == vrows = <<>> /\ vphase = "legacy"

\* no mock bar created yet
MockInit == mbar = <<>>

\* no REST request served yet
NoRequest == [svc |-> "", method |-> "", path |-> <<>>, limit |-> "",
              params |-> FALSE, valid |-> FALSE]
NoUpstream == [kind |-> "none", status |-> 0, text |-> <<>>]
NoResponse == [status |-> 0, body |-> <<>>]
RestInit ==
  /\ rq = NoRequest /\ ups = NoUpstream /\ upq = <<>>
  /\ route = "" /\ rs = NoResponse

\* config.redisUrl as text: scheme, separator, authority; <<>> when unset
RedisUrls ==
  { <<>>, <<"redis", "://", "cache:6379">>, <<"rediss", "://", "upstash:6379">> }
RedisHosts == {"localhost", "redis"}
\* the two redisClient modules of part_005
RcVariants == {"hostPort", "url"}

\* redisClient() has not been called
RcFresh ==
  /\ client = <<>> /\ made = 0 /\ connects = 0 /\ rcConn = "none" /\ got = <<>>
\* a process that never calls redisClient()
RcIdle ==
  /\ rcfg = [variant |-> "url", redisUrl |-> <<>>, redisHost |-> "localhost"]
  /\ RcFresh

\* no function call observed
NoCall == [fn |-> "none"]
CallInit == input = NoCall /\ outcome = NoCall
\* the parts of the system a specification does not run
Aside == RcIdle /\ CallInit

\* a gateway process that is up: Redis reachable and connected, the HTTP
\* server listening
LifeUp ==
  /\ redisUp = TRUE /\ rconn = "ready" /\ retries = 0
  /\ http = "listening" /\ exited = FALSE

\* the gateway process alone: the other components are not running
Init == GatewayInit /\ LifeUp /\ ProcIdle /\ VolInit /\ MockInit /\ RestInit /\ Aside

\* a gateway that is constructed and never started
GatewayIdle ==
  /\ GatewayInit /\ impl = "ws" /\ mockFlag = FALSE /\ broadcastGlobal = FALSE
  /\ LifeUp

\* ------------------------------------------- WebSocketService (expressjs)

\* initialize(httpServer): create the Socket.IO server, register the
\* connection handler, call startRedisListener() (which awaits the subscribe)
WsInitialize ==
  /\ impl = "ws" /\ pc = "constructed"
  /\ io' = "open"
  /\ pc' = "initialized"
  /\ listener' = "subscribing"
  /\ Quiet
  /\ UNCHANGED <<impl, mockFlag, mockStarted, bridge, broadcastGlobal>>
  /\ UNCHANGED clientVars
  /\ UNCHANGED logVars
  /\ UNCHANGED extVars

\* startRedisListener(): subscribeToTrades resolves, or throws and the error
\* is caught and logged
WsListenerSettle(ok) ==
  /\ impl = "ws" /\ listener = "subscribing"
  /\ listener' = IF ok THEN "on" ELSE "failed"
  /\ QuietError(~ok)
  /\ UNCHANGED <<impl, pc, io, mockFlag, mockStarted, bridge, broadcastGlobal>>
  /\ UNCHANGED clientVars
  /\ UNCHANGED logVars
  /\ UNCHANGED extVars

\* mutant: the handler registers the socket but sends no connected frame
WsHandleConnection_NoGreeting(c) ==
  /\ impl = "ws" /\ io = "open" /\ sock[c] = "new"
  /\ sock' = [sock EXCEPT ![c] = "open"]
  /\ connectedClients' = connectedClients \cup {c}
  /\ sent' = NoFrames
  /\ last' = [op |-> "connect", sock |-> c, symbol |-> "", type |-> ""]
  /\ logged' = FALSE
  /\ UNCHANGED <<seq, greeted, rooms, lastSub, bridge>>
  /\ UNCHANGED gatewayVars
  /\ UNCHANGED logVars
  /\ UNCHANGED extVars

\* handleConnection(socket): add to connectedClients, register the handlers,
\* emit the connected frame
WsHandleConnection(c) ==
  /\ impl = "ws" /\ io = "open" /\ sock[c] = "new"
  /\ sock' = [sock EXCEPT ![c] = "open"]
  /\ connectedClients' = connectedClients \cup {c}
  /\ sent' = [NoFrames EXCEPT ![c] = <<ConnectedFrame>>]
  /\ greeted' = [greeted EXCEPT ![c] = @ + 1]
  /\ last' = [op |-> "connect", sock |-> c, symbol |-> "", type |-> ""]
  /\ logged' = FALSE
  /\ UNCHANGED <<seq, rooms, lastSub, bridge>>
  /\ UNCHANGED gatewayVars
  /\ UNCHANGED logVars
  /\ UNCHANGED extVars

\* mutant: the handler upper-cases the ticker before naming the room
WsSubscribe_UpperCased(c, p) ==
  /\ impl = "ws" /\ sock[c] = "open"
  /\ rooms' = [rooms EXCEPT ![c] = @ \cup {WsRoom(toUpperCase(WsSymbolText(p)))}]
  /\ lastSub' = [lastSub EXCEPT ![c] = @ \cup {WsSymbolText(p)}]
  /\ ClientEvent("subscribe", c, p.symbol, p.kind)
  /\ UNCHANGED <<sock, connectedClients, greeted, bridge>>
  /\ UNCHANGED gatewayVars
  /\ UNCHANGED logVars
  /\ UNCHANGED extVars

\* socket.on("subscribe", (symbol: string) => socket.join(`symbol:${symbol}`))
WsSubscribe(c, p) ==
  /\ impl = "ws" /\ sock[c] = "open"
  /\ rooms' = [rooms EXCEPT ![c] = @ \cup {WsRoom(WsSymbolText(p))}]
  /\ lastSub' = [lastSub EXCEPT ![c] = @ \cup {WsSymbolText(p)}]
  /\ ClientEvent("subscribe", c, p.symbol, p.kind)
  /\ UNCHANGED <<sock, connectedClients, greeted, bridge>>
  /\ UNCHANGED gatewayVars
  /\ UNCHANGED logVars
  /\ UNCHANGED extVars

\* socket.on("unsubscribe", (symbol: string) => socket.leave(`symbol:${symbol}`))
WsUnsubscribe(c, p) ==
  /\ impl = "ws" /\ sock[c] = "open"
  /\ rooms' = [rooms EXCEPT ![c] = @ \ {WsRoom(WsSymbolText(p))}]
  /\ lastSub' = [lastSub EXCEPT ![c] = @ \ {WsSymbolText(p)}]
  /\ ClientEvent("unsubscribe", c, p.symbol, p.kind)
  /\ UNCHANGED <<sock, connectedClients, greeted, bridge>>
  /\ UNCHANGED gatewayVars
  /\ UNCHANGED logVars
  /\ UNCHANGED extVars

\* mutant: the guard reads `symbol && !this.io`, so nothing is emitted while
\* the server is up
WsRedisMessage_GuardInverted(sym) ==
  /\ impl = "ws" /\ listener = "on"
  /\ Dispatched("listener", sym, "trade",
       IF Truthy(sym) /\ io # "open"
         THEN EmitAll(EmitRoom(NoFrames, WsRoom(sym), Frame("trade", sym, "trade", "room")),
                      Frame("trade", sym, "trade", "all"))
         ELSE NoFrames)
  /\ UNCHANGED <<bridge>>
  /\ UNCHANGED clientVars
  /\ UNCHANGED gatewayVars
  /\ UNCHANGED logVars
  /\ UNCHANGED extVars

\* the Redis channel callback of startRedisListener: emit to the symbol room
\* and also to all clients, when the symbol is truthy and the server is set
\* mutant: the listener emits to the symbol room only
WsRedisMessage_RoomOnly(sym) ==
  /\ impl = "ws" /\ listener = "on"
  /\ Dispatched("listener", sym, "trade",
       IF Truthy(sym) /\ io = "open"
         THEN EmitRoom(NoFrames, WsRoom(sym), Frame("trade", sym, "trade", "room"))
         ELSE NoFrames)
  /\ UNCHANGED <<bridge>>
  /\ UNCHANGED clientVars
  /\ UNCHANGED gatewayVars
  /\ UNCHANGED logVars
  /\ UNCHANGED extVars

WsRedisMessage(sym) ==
  /\ impl = "ws" /\ listener = "on"
  /\ Dispatched("listener", sym, "trade",
       IF Truthy(sym) /\ io = "open"
         THEN EmitAll(EmitRoom(NoFrames, WsRoom(sym), Frame("trade", sym, "trade", "room")),
                      Frame("trade", sym, "trade", "all"))
         ELSE NoFrames)
  /\ UNCHANGED <<bridge>>
  /\ UNCHANGED clientVars
  /\ UNCHANGED gatewayVars
  /\ UNCHANGED logVars
  /\ UNCHANGED extVars

\* the subscriber callback of subscribeToTrades when the message is not
\* JSON, or is JSON null so that reading tradeData.symbol throws: the inner
\* catch logs the error and the message is gone
WsRedisParseError ==
  /\ impl = "ws" /\ listener = "on"
  /\ seq < MaxMsgs
  /\ seq' = seq + 1
  /\ last' = [op |-> "listenerError", sock |-> "", symbol |-> "", type |-> "trade"]
  /\ sent' = NoFrames
  /\ logged' = TRUE
  /\ UNCHANGED <<bridge>>
  /\ UNCHANGED clientVars
  /\ UNCHANGED gatewayVars
  /\ UNCHANGED logVars
  /\ UNCHANGED extVars

\* broadcast(event, data)
WsBroadcast(type) ==
  /\ impl = "ws"
  /\ Dispatched("broadcast", "", type,
       IF io = "open"
         THEN EmitAll(NoFrames, Frame(EventFor(type), "", type, "all"))
         ELSE NoFrames)
  /\ UNCHANGED <<bridge>>
  /\ UNCHANGED clientVars
  /\ UNCHANGED gatewayVars
  /\ UNCHANGED logVars
  /\ UNCHANGED extVars

\* broadcastToSymbol(symbol, event, data)
WsBroadcastToSymbol(sym, type) ==
  /\ impl = "ws"
  /\ Dispatched("broadcastToSymbol", sym, type,
       IF io = "open"
         THEN EmitRoom(NoFrames, WsRoom(sym), Frame(EventFor(type), sym, type, "room"))
         ELSE NoFrames)
  /\ UNCHANGED <<bridge>>
  /\ UNCHANGED clientVars
  /\ UNCHANGED gatewayVars
  /\ UNCHANGED logVars
  /\ UNCHANGED extVars

\* close() with the reference to the server kept after io.close(): the server
\* object still accepts connections and emits
WsCloseBegin_KeepsServer ==
  /\ impl = "ws" /\ pc = "initialized"
  /\ pc' = "closing"
  /\ sock' = [c \in Sockets |-> IF sock[c] = "open" THEN "closed" ELSE sock[c]]
  /\ rooms' = [c \in Sockets |-> {}]
  /\ lastSub' = [c \in Sockets |-> {}]
  /\ connectedClients' = connectedClients \ Open
  /\ Quiet
  /\ http' = IF http = "listening" THEN "closing" ELSE http
  /\ UNCHANGED <<impl, io, listener, mockFlag, mockStarted, bridge, broadcastGlobal, greeted>>
  /\ UNCHANGED <<redisUp, rconn, retries, exited>>
  /\ UNCHANGED logVars
  /\ UNCHANGED otherVars

\* close(), first half: io.close() disconnects every client (their disconnect
\* handlers run) and starts closing the attached HTTP server, then
\* this.io = null; the await on redisClient.disconnect() is still outstanding
WsCloseBegin ==
  /\ impl = "ws" /\ pc = "initialized"
  /\ io' = "null"
  /\ pc' = "closing"
  /\ sock' = [c \in Sockets |-> IF sock[c] = "open" THEN "closed" ELSE sock[c]]
  /\ rooms' = [c \in Sockets |-> {}]
  /\ lastSub' = [c \in Sockets |-> {}]
  /\ connectedClients' = connectedClients \ Open
  /\ Quiet
  /\ http' = IF http = "listening" THEN "closing" ELSE http
  /\ UNCHANGED <<impl, listener, mockFlag, mockStarted, bridge, broadcastGlobal, greeted>>
  /\ UNCHANGED <<redisUp, rconn, retries, exited>>
  /\ UNCHANGED logVars
  /\ UNCHANGED otherVars

\* close(), second half: redisClient.disconnect() has quit the subscriber
WsCloseEnd ==
  /\ impl = "ws" /\ pc = "closing"
  /\ listener' = "off"
  /\ pc' = "closed"
  /\ rconn' = "ended"
  /\ Quiet
  /\ UNCHANGED <<impl, io, mockFlag, mockStarted, bridge, broadcastGlobal>>
  /\ UNCHANGED <<redisUp, retries, http, exited>>
  /\ UNCHANGED clientVars
  /\ UNCHANGED logVars
  /\ UNCHANGED otherVars

\* close() called again (the SIGINT and SIGTERM handlers each call it): this.io
\* is already null, so the if-block is skipped, and redisClient.disconnect()
\* finds nothing new to release
WsCloseAgain ==
  /\ impl = "ws" /\ pc \in {"closing", "closed"}
  /\ ClientEvent("close", "", "", "")
  /\ UNCHANGED <<impl, pc, io, listener, mockFlag, mockStarted, bridge, broadcastGlobal>>
  /\ UNCHANGED clientVars
  /\ UNCHANGED lifeVars
  /\ UNCHANGED logVars
  /\ UNCHANGED otherVars

\* ------------------------------------ the expressjs-server process
\* (startServer, RedisStreamClient.connect and the signal handlers)

MaxRetries == 10
RetryStepMs == 100
MaxDelayMs == 3000

\* mutant: the strategy gives up one retry early
ReconnectStrategy_GivesUpAtTen(r) ==
  IF r >= MaxRetries
    THEN [giveUp |-> TRUE, delay |-> 0]
    ELSE [giveUp |-> FALSE,
          delay |-> IF r * RetryStepMs <= MaxDelayMs THEN r * RetryStepMs ELSE MaxDelayMs]

\* reconnectStrategy(retries): an Error once retries > 10, otherwise the
\* delay Math.min(retries * 100, 3000)
ReconnectStrategy(r) ==
  IF r > MaxRetries
    THEN [giveUp |-> TRUE, delay |-> 0]
    ELSE [giveUp |-> FALSE,
          delay |-> IF r * RetryStepMs <= MaxDelayMs THEN r * RetryStepMs ELSE MaxDelayMs]

\* startServer() has been entered: redisClient.connect() is awaited, no
\* WebSocketService exists yet, the HTTP server does not listen yet
StartServerInit ==
  /\ impl = "ws" /\ pc = "starting" /\ io = "null" /\ listener = "off"
  /\ sock = [c \in Sockets |-> "new"]
  /\ rooms = [c \in Sockets |-> {}]
  /\ connectedClients = {}
  /\ sent = NoFrames /\ last = NoDispatch /\ seq = 0
  /\ greeted = [c \in Sockets |-> 0]
  /\ mockFlag = FALSE /\ mockStarted = FALSE
  /\ bridge = "stopped" /\ broadcastGlobal = FALSE
  /\ stream = <<>> /\ lastId = 0 /\ pending = {} /\ acked = {}
  /\ delivered = {} /\ dropped = {} /\ failed = {}
  /\ lastSub = [c \in Sockets |-> {}]
  /\ logged = FALSE
  /\ redisUp \in BOOLEAN /\ rconn = "connecting" /\ retries = 0
  /\ http = "idle" /\ exited = FALSE

\* what no step of the process lifecycle changes
lifeFrame ==
  <<impl, sock, rooms, connectedClients, greeted, lastSub, mockFlag, mockStarted,
    bridge, broadcastGlobal, logVars, otherVars>>

\* the environment: Redis goes away / comes back
EnvRedisDown ==
  /\ redisUp /\ ~exited
  /\ redisUp' = FALSE
  /\ Quiet
  /\ UNCHANGED <<pc, io, listener, rconn, retries, http, exited>>
  /\ UNCHANGED lifeFrame

EnvRedisUp ==
  /\ ~redisUp /\ ~exited
  /\ redisUp' = TRUE
  /\ Quiet
  /\ UNCHANGED <<pc, io, listener, rconn, retries, http, exited>>
  /\ UNCHANGED lifeFrame

\* the established connection breaks: the client starts reconnecting
RedisConnectionLost ==
  /\ rconn = "ready" /\ ~redisUp /\ ~exited
  /\ rconn' = "reconnecting"
  /\ retries' = 0
  /\ QuietError(TRUE)
  /\ UNCHANGED <<pc, io, listener, redisUp, http, exited>>
  /\ UNCHANGED lifeFrame

\* one connection attempt of the subscriber. Success: the client is ready
\* and, at startup, connect() resolves and the WebSocketService is
\* constructed. Failure: reconnectStrategy(retries) returns a delay, or an
\* Error once retries > 10: the client stops for good and, at startup,
\* connect() rejects and startServer continues without WebSocket
RedisConnectAttempt ==
  /\ rconn \in {"connecting", "reconnecting"} /\ ~exited
  /\ IF redisUp
       THEN /\ rconn' = "ready" /\ retries' = 0
            /\ pc' = IF pc = "starting" THEN "constructed" ELSE pc
            /\ QuietError(FALSE)
       ELSE IF ReconnectStrategy(retries).giveUp
         THEN /\ rconn' = "ended"
              /\ pc' = IF pc = "starting" THEN "noWebSocket" ELSE pc
              /\ QuietError(TRUE)
              /\ UNCHANGED retries
         ELSE /\ retries' = retries + 1
              /\ QuietError(FALSE)
              /\ UNCHANGED <<rconn, pc>>
  /\ UNCHANGED <<io, listener, redisUp, http, exited>>
  /\ UNCHANGED lifeFrame

\* startRedisListener() settles: the subscribe succeeds on a ready client
\* and is rejected by a client that has stopped
ListenerSettles ==
  /\ rconn \in {"ready", "ended"} /\ ~exited
  /\ WsListenerSettle(rconn = "ready")

\* httpServer.listen(PORT) moved inside the try block: it is reached only
\* when the WebSocket service was initialized
HttpListen_InsideTry ==
  /\ pc = "initialized" /\ http = "idle" /\ ~exited
  /\ http' = "listening"
  /\ Quiet
  /\ UNCHANGED <<pc, io, listener, redisUp, rconn, retries, exited>>
  /\ UNCHANGED lifeFrame

\* httpServer.listen(PORT), after the try block, with or without WebSocket
HttpListen ==
  /\ pc \in {"initialized", "noWebSocket"} /\ http = "idle" /\ ~exited
  /\ http' = "listening"
  /\ Quiet
  /\ UNCHANGED <<pc, io, listener, redisUp, rconn, retries, exited>>
  /\ UNCHANGED lifeFrame

\* the server's close completes: its last connection has ended
HttpCloseDone ==
  /\ http = "closing" /\ ~exited
  /\ http' = "closed"
  /\ Quiet
  /\ UNCHANGED <<pc, io, listener, redisUp, rconn, retries, exited>>
  /\ UNCHANGED lifeFrame

\* SIGTERM / SIGINT handler, first part: await wsService.close()
SignalCloseBegin == ~exited /\ WsCloseBegin
SignalCloseEnd == ~exited /\ WsCloseEnd

\* SIGTERM / SIGINT handler, after the await: httpServer.close();
\* process.exit(0)
SignalExit ==
  /\ pc = "closed" /\ ~exited
  /\ http' = IF http = "listening" THEN "closing" ELSE http
  /\ exited' = TRUE
  /\ Quiet
  /\ UNCHANGED <<pc, io, listener, redisUp, rconn, retries>>
  /\ UNCHANGED lifeFrame

\* a signal while no handler is registered (before the try block finished,
\* or after its catch): the default action ends the process
SignalDefault ==
  /\ pc \in {"starting", "noWebSocket"} /\ ~exited
  /\ exited' = TRUE
  /\ Quiet
  /\ UNCHANGED <<pc, io, listener, redisUp, rconn, retries, http>>
  /\ UNCHANGED lifeFrame

\* --------------------------------------------- SocketService (gateway-service)

\* io.on("connection", ...): log, register the handlers
SsConnection(c) ==
  /\ impl = "ss" /\ sock[c] = "new"
  /\ sock' = [sock EXCEPT ![c] = "open"]
  /\ ClientEvent("connect", c, "", "")
  /\ UNCHANGED <<rooms, connectedClients, greeted, lastSub, bridge>>
  /\ UNCHANGED gatewayVars
  /\ UNCHANGED logVars
  /\ UNCHANGED extVars

\* socket.on("subscribe", payload): if (symbol) socket.join(symbol)
SsSubscribe(c, p) ==
  /\ impl = "ss" /\ sock[c] = "open"
  /\ IF Truthy(SsSymbol(p))
       THEN /\ rooms' = [rooms EXCEPT ![c] = @ \cup {SsSymbol(p)}]
            /\ lastSub' = [lastSub EXCEPT ![c] = @ \cup {SsSymbol(p)}]
       ELSE UNCHANGED <<rooms, lastSub>>
  /\ ClientEvent("subscribe", c, p.symbol, p.kind)
  /\ UNCHANGED <<sock, connectedClients, greeted, bridge>>
  /\ UNCHANGED gatewayVars
  /\ UNCHANGED logVars
  /\ UNCHANGED extVars

\* mutant: the handler leaves the room under the prefixed name, which the
\* subscribe handler never joined
SsUnsubscribe_PrefixedRoom(c, p) ==
  /\ impl = "ss" /\ sock[c] = "open"
  /\ IF Truthy(SsSymbol(p))
       THEN /\ rooms' = [rooms EXCEPT ![c] = @ \ {WsRoom(SsSymbol(p))}]
            /\ lastSub' = [lastSub EXCEPT ![c] = @ \ {SsSymbol(p)}]
       ELSE UNCHANGED <<rooms, lastSub>>
  /\ ClientEvent("unsubscribe", c, p.symbol, p.kind)
  /\ UNCHANGED <<sock, connectedClients, greeted, bridge>>
  /\ UNCHANGED gatewayVars
  /\ UNCHANGED logVars
  /\ UNCHANGED extVars

\* socket.on("unsubscribe", payload): if (symbol) socket.leave(symbol)
SsUnsubscribe(c, p) ==
  /\ impl = "ss" /\ sock[c] = "open"
  /\ IF Truthy(SsSymbol(p))
       THEN /\ rooms' = [rooms EXCEPT ![c] = @ \ {SsSymbol(p)}]
            /\ lastSub' = [lastSub EXCEPT ![c] = @ \ {SsSymbol(p)}]
       ELSE UNCHANGED <<rooms, lastSub>>
  /\ ClientEvent("unsubscribe", c, p.symbol, p.kind)
  /\ UNCHANGED <<sock, connectedClients, greeted, bridge>>
  /\ UNCHANGED gatewayVars
  /\ UNCHANGED logVars
  /\ UNCHANGED extVars

\* emitToSymbol(symbol, event, data): io.to(symbol).emit(event, data)
SsEmitToSymbol(sym, type) ==
  /\ impl = "ss"
  /\ Dispatched("emitToSymbol", sym, type,
       EmitRoom(NoFrames, sym, Frame(EventFor(type), sym, type, "room")))
  /\ UNCHANGED <<bridge>>
  /\ UNCHANGED clientVars
  /\ UNCHANGED gatewayVars
  /\ UNCHANGED logVars
  /\ UNCHANGED extVars

\* emitMarketUpdate(data): io.emit("market_update", data)
SsEmitMarketUpdate(type) ==
  /\ impl = "ss"
  /\ Dispatched("emitMarketUpdate", "", type,
       EmitAll(NoFrames, Frame("market_update", "", type, "all")))
  /\ UNCHANGED <<bridge>>
  /\ UNCHANGED clientVars
  /\ UNCHANGED gatewayVars
  /\ UNCHANGED logVars
  /\ UNCHANGED extVars

\* startBridge(): the awaited wrapRedisCall(() => bridge.start()) settles:
\* the bridge runs, or start() rejected, the error is logged and null returned
SsStartBridgeSettle(ok) ==
  /\ impl = "ss" /\ bridge = "starting"
  /\ bridge' = IF ok THEN "started" ELSE "failed"
  /\ QuietError(~ok)
  /\ UNCHANGED gatewayVars
  /\ UNCHANGED clientVars
  /\ UNCHANGED logVars
  /\ UNCHANGED extVars

\* stop(): stop the mock emitter when one was started, then bridge.stop()
SsStop ==
  /\ impl = "ss" /\ pc = "running"
  /\ pc' = "stopped"
  /\ mockStarted' = FALSE
  /\ bridge' = "stopped"
  /\ Quiet
  /\ UNCHANGED <<impl, io, listener, mockFlag, broadcastGlobal>>
  /\ UNCHANGED clientVars
  /\ UNCHANGED logVars
  /\ UNCHANGED extVars

\* mock-realtime barInterval callback: io.emit("bar_update", createMockBar(symbol))
MockBarTick(sym) ==
  /\ impl = "ss" /\ mockStarted
  /\ Dispatched("mock", toUpperCase(sym), "bar",
       EmitAll(NoFrames, Frame("bar_update", toUpperCase(sym), "bar", "all")))
  /\ UNCHANGED <<bridge>>
  /\ UNCHANGED clientVars
  /\ UNCHANGED gatewayVars
  /\ UNCHANGED logVars
  /\ UNCHANGED extVars

\* mutant: the trade interval emits under the bar event name
MockTradeTick_BarEvent(sym) ==
  /\ impl = "ss" /\ mockStarted
  /\ Dispatched("mock", toUpperCase(sym), "trade",
       EmitAll(NoFrames, Frame("bar_update", toUpperCase(sym), "trade", "all")))
  /\ UNCHANGED <<bridge>>
  /\ UNCHANGED clientVars
  /\ UNCHANGED gatewayVars
  /\ UNCHANGED logVars
  /\ UNCHANGED extVars

\* mock-realtime tradeInterval callback: io.emit("trade_update", createMockTrade(symbol))
MockTradeTick(sym) ==
  /\ impl = "ss" /\ mockStarted
  /\ Dispatched("mock", toUpperCase(sym), "trade",
       EmitAll(NoFrames, Frame("trade_update", toUpperCase(sym), "trade", "all")))
  /\ UNCHANGED <<bridge>>
  /\ UNCHANGED clientVars
  /\ UNCHANGED gatewayVars
  /\ UNCHANGED logVars
  /\ UNCHANGED extVars

\* ------------------------------------------------------ both: disconnect

\* mutant: the disconnect handler does not delete the socket from
\* connectedClients
Disconnect_KeepsClient(c) ==
  /\ sock[c] = "open"
  /\ sock' = [sock EXCEPT ![c] = "closed"]
  /\ rooms' = [rooms EXCEPT ![c] = {}]
  /\ lastSub' = [lastSub EXCEPT ![c] = {}]
  /\ ClientEvent("disconnect", c, "", "")
  /\ UNCHANGED <<connectedClients, greeted, bridge>>
  /\ UNCHANGED gatewayVars
  /\ UNCHANGED logVars
  /\ UNCHANGED extVars

\* the socket's "disconnect" event: socket.io has left every room of the
\* socket; WebSocketService's handler deletes it from connectedClients,
\* SocketService's handler only logs
Disconnect(c) ==
  /\ sock[c] = "open"
  /\ sock' = [sock EXCEPT ![c] = "closed"]
  /\ rooms' = [rooms EXCEPT ![c] = {}]
  /\ lastSub' = [lastSub EXCEPT ![c] = {}]
  /\ connectedClients' = connectedClients \ {c}
  /\ ClientEvent("disconnect", c, "", "")
  /\ UNCHANGED <<greeted, bridge>>
  /\ UNCHANGED gatewayVars
  /\ UNCHANGED logVars
  /\ UNCHANGED extVars

\* ------------------------------ per-stream log and RedisWebSocketBridge
\* (the bridge's read cycle follows spec.md 4.3: consumer group, pending
\* list, ack after successful dispatch, malformed entries acked and dropped)

\* XADD market:realtime:<stream> * symbol <SYMBOL> data <JSON>
XAdd(e) ==
  /\ impl = "ss"
  /\ Len(stream) < MaxEntries
  /\ stream' = Append(stream, e)
  /\ Quiet
  /\ UNCHANGED <<lastId, pending, acked, delivered, dropped, failed, bridge>>
  /\ UNCHANGED gatewayVars
  /\ UNCHANGED clientVars
  /\ UNCHANGED extVars

\* blocking group read of new entries: the entry enters the pending list
BridgeRead ==
  /\ bridge = "started"
  /\ lastId < Len(stream)
  /\ lastId' = lastId + 1
  /\ pending' = pending \cup {lastId + 1}
  /\ Quiet
  /\ UNCHANGED <<stream, acked, delivered, dropped, failed, bridge>>
  /\ UNCHANGED gatewayVars
  /\ UNCHANGED clientVars
  /\ UNCHANGED extVars

\* malformed data or empty symbol: acknowledge and drop
BridgeDropMalformed(i) ==
  /\ bridge = "started"
  /\ i \in pending /\ ~stream[i].ok
  /\ pending' = pending \ {i}
  /\ acked' = acked \cup {i}
  /\ dropped' = dropped \cup {i}
  /\ QuietError(TRUE)
  /\ UNCHANGED <<stream, lastId, delivered, failed, bridge>>
  /\ UNCHANGED gatewayVars
  /\ UNCHANGED clientVars
  /\ UNCHANGED extVars

\* dispatch succeeded: room emit (and the optional global emit), then ack
BridgeDispatchOk(i) ==
  /\ bridge = "started"
  /\ i \in pending /\ stream[i].ok
  /\ sent' =
       LET e == stream[i]
           toRoom == EmitRoom(NoFrames, e.symbol,
                              Frame(EventFor(e.type), e.symbol, e.type, "room"))
       IN  IF broadcastGlobal
             THEN EmitAll(toRoom, Frame(EventFor(e.type), e.symbol, e.type, "all"))
             ELSE toRoom
  /\ last' = [op |-> "bridge", sock |-> "", symbol |-> stream[i].symbol,
               type |-> stream[i].type]
  /\ logged' = FALSE
  /\ seq' = seq + 1
  /\ pending' = pending \ {i}
  /\ acked' = acked \cup {i}
  /\ delivered' = delivered \cup {i}
  /\ UNCHANGED <<stream, lastId, dropped, failed, bridge>>
  /\ UNCHANGED gatewayVars
  /\ UNCHANGED clientVars
  /\ UNCHANGED extVars

\* mutant: the bridge acknowledges the entry although its broadcast failed
BridgeDispatchFail_Acks(i) ==
  /\ bridge = "started"
  /\ i \in pending /\ stream[i].ok
  /\ failed' = failed \cup {i}
  /\ pending' = pending \ {i}
  /\ acked' = acked \cup {i}
  /\ Quiet
  /\ UNCHANGED <<stream, lastId, delivered, dropped, bridge>>
  /\ UNCHANGED gatewayVars
  /\ UNCHANGED clientVars
  /\ UNCHANGED extVars

\* the broadcast failed: no ack, the entry stays pending for the next cycle
BridgeDispatchFail(i) ==
  /\ bridge = "started"
  /\ i \in pending /\ stream[i].ok
  /\ failed' = failed \cup {i}
  /\ QuietError(TRUE)
  /\ UNCHANGED <<stream, lastId, pending, acked, delivered, dropped, bridge>>
  /\ UNCHANGED gatewayVars
  /\ UNCHANGED clientVars
  /\ UNCHANGED extVars

\* ------------------------------------------------------------ bars

Min(a, b) == IF a <= b THEN a ELSE b
Max(a, b) == IF a >= b THEN a ELSE b

\* the bar invariant of spec.md 3
BarOk(b) ==
  b.low <= Min(b.open, b.close) /\ Max(b.open, b.close) <= b.high

\* ------------------------------------------------- Stream Processor
\* (one consumer loop, following spec.md 4.2: poll, validate, buffer, flush
\* = bulk insert with conflict-ignore, log appends, offset commit)

\* the validation step: parseable, and a trade with positive price and
\* non-negative size, or a bar satisfying the bar invariant
Valid(m) ==
  CASE m.type = "trade" -> m.price > 0 /\ m.size >= 0
    [] m.type = "bar" -> BarOk(m)
    [] OTHER -> FALSE

Range(q) == {q[k] : k \in DOMAIN q}

\* mutant: a plain bulk insert without the conflict clause
InsertIgnore_NoConflictClause(rows, batch) == rows \o batch

RECURSIVE InsertIgnore(_, _)
\* bulk insert with the idempotency clause applied as conflict-ignore: a
\* row whose key is already in the table is skipped
InsertIgnore(rows, batch) ==
  IF batch = <<>> THEN rows
  ELSE InsertIgnore(IF Head(batch) \in Range(rows) THEN rows
                    ELSE Append(rows, Head(batch)),
                    Tail(batch))

\* a producer publishes m to the loop's topic
BusPublish(m) ==
  /\ Len(bus) < MaxBus
  /\ bus' = Append(bus, m)
  /\ UNCHANGED <<loop, pos, committed, buffer, table, plog, fails, degraded, faults>>
  /\ UNCHANGED nonProcVars

\* poll: the next message is validated; a valid one is buffered, a
\* malformed or invalid one is logged and dropped
ProcPoll ==
  /\ pos < Len(bus)
  /\ pos' = pos + 1
  /\ buffer' = IF Valid(bus[pos + 1]) THEN Append(buffer, bus[pos + 1]) ELSE buffer
  /\ UNCHANGED <<loop, bus, committed, table, plog, fails, degraded, faults>>
  /\ UNCHANGED nonProcVars

\* mutant: after five consecutive failures the batch is given up and its
\* offsets are committed
ProcFlushFailDb_GivesUp ==
  /\ pos > committed /\ faults < MaxFaults
  /\ faults' = faults + 1
  /\ fails' = fails + 1
  /\ degraded' = (fails + 1 >= 5)
  /\ IF fails + 1 >= 5
       THEN committed' = pos /\ buffer' = <<>>
       ELSE UNCHANGED <<committed, buffer>>
  /\ UNCHANGED <<loop, bus, pos, table, plog>>
  /\ UNCHANGED nonProcVars

\* flush, the bulk insert fails: nothing is written, offsets stay
\* uncommitted, the batch is kept for the retry
ProcFlushFailDb ==
  /\ pos > committed /\ faults < MaxFaults
  /\ faults' = faults + 1
  /\ fails' = fails + 1
  /\ degraded' = (fails + 1 >= 5)
  /\ UNCHANGED <<loop, bus, pos, committed, buffer, table, plog>>
  /\ UNCHANGED nonProcVars

\* flush, the insert succeeds and the log write fails after k appends (or,
\* with k the whole batch, the offset commit fails): offsets stay
\* uncommitted, the batch is kept for the retry
ProcFlushFailLog(k) ==
  /\ pos > committed /\ faults < MaxFaults
  /\ k <= Len(buffer)
  /\ table' = InsertIgnore(table, buffer)
  /\ plog' = plog \o SubSeq(buffer, 1, k)
  /\ faults' = faults + 1
  /\ fails' = fails + 1
  /\ degraded' = (fails + 1 >= 5)
  /\ UNCHANGED <<loop, bus, pos, committed, buffer>>
  /\ UNCHANGED nonProcVars

\* flush succeeds: insert, append every record to the log, commit the
\* offsets, clear the buffer
ProcFlushOk ==
  /\ pos > committed
  /\ table' = InsertIgnore(table, buffer)
  /\ plog' = plog \o buffer
  /\ committed' = pos
  /\ buffer' = <<>>
  /\ fails' = 0
  /\ degraded' = FALSE
  /\ UNCHANGED <<loop, bus, pos, faults>>
  /\ UNCHANGED nonProcVars

\* the processor crashes and restarts: the buffer is lost and consumption
\* resumes from the committed offset
ProcRestart ==
  /\ pos > committed /\ faults < MaxFaults
  /\ faults' = faults + 1
  /\ pos' = committed
  /\ buffer' = <<>>
  /\ fails' = 0
  /\ degraded' = FALSE
  /\ UNCHANGED <<loop, bus, committed, table, plog>>
  /\ UNCHANGED nonProcVars

\* ------------------------------------------------ mock bar payloads
\* (prices in thousandths; each draw is Math.random() scaled as in the code)

MockBase == 150000
\* (Math.random() - 0.5) * 2, in [-1, 1)
OpenDraws == {-996, 4}
\* (Math.random() - 0.5) * 3, in [-1.5, 1.5)
CloseDraws == {-1495, 6}
\* Math.random() * 1.5, in [0, 1.5)
SpreadDraws == {0, 4}

\* Number(x.toFixed(2)): x rounded to hundredths
ToFixed2(x) == ((x + 5) \div 10) * 10

\* mutant: high is taken above open only
CreateMockBar_HighAboveOpen(sym, dO, dC, uH, dL) ==
  LET open == MockBase + dO
      close == MockBase + dC
      high == open + uH
      low == Min(open, close) - dL
  IN  [type |-> "bar", symbol |-> toUpperCase(sym), ts |-> 1,
       open |-> ToFixed2(open), high |-> ToFixed2(high),
       low |-> ToFixed2(low), close |-> ToFixed2(close)]

\* createMockBar(symbol)
CreateMockBar(sym, dO, dC, uH, dL) ==
  LET open == MockBase + dO
      close == MockBase + dC
      high == Max(open, close) + uH
      low == Min(open, close) - dL
  IN  [type |-> "bar", symbol |-> toUpperCase(sym), ts |-> 1,
       open |-> ToFixed2(open), high |-> ToFixed2(high),
       low |-> ToFixed2(low), close |-> ToFixed2(close)]

\* the bar interval callback builds the payload of its bar_update
MockBarPayload(sym, dO, dC, uH, dL) ==
  /\ mbar' = <<CreateMockBar(sym, dO, dC, uH, dL)>>
  /\ UNCHANGED nonMockVars

\* ------------------------------------------- accumulated volume (SQL)

StockIds == {1, 2}
TradeTs == {1, 2}
TradeSizes == {0, 1}

\* ORDER BY ts ASC, trade_id ASC: row j is at or before row i
AtOrBefore(rows, j, i) ==
  rows[j].ts < rows[i].ts \/ (rows[j].ts = rows[i].ts /\ j <= i)

RECURSIVE SumSize(_, _)
\* SUM(size) over the rows of q with positions in K
SumSize(q, K) ==
  IF K = {} THEN 0
  ELSE LET k == CHOOSE x \in K : TRUE
       IN  q[k].size + SumSize(q, K \ {k})

\* ranked_trades: WHERE size IS NOT NULL AND size > 0
RankedTrades(rows) == {k \in DOMAIN rows : rows[k].size > 0}

\* cumulative_volumes.accumulated_volume of ranked row i: SUM(size) OVER
\* (PARTITION BY stock_id ORDER BY ts, trade_id ROWS UNBOUNDED PRECEDING)
AccumulatedVolume(rows, i) ==
  SumSize(rows, {j \in RankedTrades(rows) :
                   rows[j].stock = rows[i].stock /\ AtOrBefore(rows, j, i)})

\* a trade row inserted before the volume column exists (the volume field
\* holds the DEFAULT the column gets for existing rows)
LegacyInsert(st, ts, sz) ==
  /\ vphase = "legacy" /\ Len(vrows) < MaxRows
  /\ vrows' = Append(vrows, [stock |-> st, ts |-> ts, size |-> sz, volume |-> 0])
  /\ UNCHANGED vphase
  /\ UNCHANGED nonVolVars

\* 003_add_volume_to_trades: ADD COLUMN IF NOT EXISTS volume DEFAULT 0
Migrate003 ==
  /\ vphase = "legacy"
  /\ vphase' = "migrated"
  /\ vrows' = [k \in DOMAIN vrows |-> [vrows[k] EXCEPT !.volume = 0]]
  /\ UNCHANGED nonVolVars

\* the backfill migration: UPDATE ... SET volume = cv.accumulated_volume
\* FROM cumulative_volumes cv WHERE t.trade_id = cv.trade_id AND t.volume = 0
Backfill ==
  /\ vphase = "migrated"
  /\ vphase' = "backfilled"
  /\ vrows' =
       [k \in DOMAIN vrows |->
          IF k \in RankedTrades(vrows) /\ vrows[k].volume = 0
            THEN [vrows[k] EXCEPT !.volume = AccumulatedVolume(vrows, k)]
            ELSE vrows[k]]
  /\ UNCHANGED nonVolVars

\* ------------------------------------------------------ specifications

VolNext ==
  \/ \E st \in StockIds, ts \in TradeTs, sz \in TradeSizes : LegacyInsert(st, ts, sz)
  \/ Migrate003
  \/ Backfill

\* the trades table through the two volume migrations
VolumeInit == GatewayIdle /\ ProcIdle /\ VolInit /\ MockInit /\ RestInit /\ Aside
VolumeSpec == VolumeInit /\ [][VolNext]_vars

\* ------------------------------------------ redisClient() (gateway-service)

\* String.prototype.startsWith on the text of the URL
StartsWith(text, prefix) ==
  /\ Len(text) >= Len(prefix)
  /\ SubSeq(text, 1, Len(prefix)) = prefix

\* new Redis(config.redisUrl, {lazyConnect, tls}) / new Redis({host, port, lazyConnect})
NewRedis(id) ==
  IF rcfg.variant = "url" /\ rcfg.redisUrl # <<>>
    THEN [id |-> id, from |-> "url", endpoint |-> rcfg.redisUrl,
          tls |-> StartsWith(rcfg.redisUrl, <<"rediss", "://">>)]
    ELSE [id |-> id, from |-> "hostPort", endpoint |-> <<rcfg.redisHost>>,
          tls |-> FALSE]

\* mutant: a client whose connect failed is replaced on the next call
RedisClient_RecreatesAfterFailure ==
  /\ Len(got) < MaxCalls
  /\ IF client = <<>> \/ rcConn = "failed"
       THEN /\ client' = <<NewRedis(made + 1)>>
            /\ made' = made + 1
            /\ connects' = connects + 1
            /\ rcConn' = "connecting"
       ELSE UNCHANGED <<client, made, connects, rcConn>>
  /\ got' = Append(got, [id |-> client'[1].id, conn |-> rcConn])
  /\ UNCHANGED rcfg
  /\ UNCHANGED nonRcVars

\* redisClient(): the first call constructs the client, registers the error
\* listener and starts connect() without awaiting it; every call returns
\* the module-level client
RedisClient ==
  /\ Len(got) < MaxCalls
  /\ IF client = <<>>
       THEN /\ client' = <<NewRedis(made + 1)>>
            /\ made' = made + 1
            /\ connects' = connects + 1
            /\ rcConn' = "connecting"
       ELSE UNCHANGED <<client, made, connects, rcConn>>
  /\ got' = Append(got, [id |-> client'[1].id, conn |-> rcConn])
  /\ UNCHANGED rcfg
  /\ UNCHANGED nonRcVars

\* the connect() started by the first call settles; wrapRedisCall logs a
\* rejection and swallows it
RedisConnectSettles(ok) ==
  /\ rcConn = "connecting"
  /\ rcConn' = IF ok THEN "ready" ELSE "failed"
  /\ UNCHANGED <<rcfg, client, made, connects, got>>
  /\ UNCHANGED nonRcVars

RedisClientNext ==
  \/ RedisClient
  \/ \E ok \in BOOLEAN : RedisConnectSettles(ok)

\* a process of either module variant under every configuration
RedisClientInit ==
  /\ GatewayIdle /\ ProcIdle /\ VolInit /\ MockInit /\ RestInit /\ CallInit
  /\ rcfg \in [variant : RcVariants, redisUrl : RedisUrls, redisHost : RedisHosts]
  /\ RcFresh
RedisClientSpec == RedisClientInit /\ [][RedisClientNext]_vars

\* ------------------------------------- StockService.getStockByTicker

\* how one financialClient call settles: rejected, fulfilled with null
\* (<<>>), or fulfilled with data
Settled(branch) ==
  {[status |-> "rejected", value |-> <<>>], [status |-> "fulfilled", value |-> <<>>]}
  \cup {[status |-> "fulfilled", value |-> <<branch, v>>] : v \in {"a", "b"}}

\* a Promise.allSettled entry that is fulfilled with a truthy value
Usable(r) == r.status = "fulfilled" /\ r.value # <<>>

\* mutant: Promise.all in place of Promise.allSettled: one rejection
\* rejects the group and the catch block throws NotFoundError
StockByTicker_AllOrNothing(profileResult, quoteResult, financialsResult) ==
  IF \E r \in {profileResult, quoteResult, financialsResult} : r.status = "rejected"
    THEN [kind |-> "throw", value |-> <<>>]
    ELSE IF ~Usable(profileResult)
      THEN [kind |-> "return", value |-> <<>>]
      ELSE [kind |-> "return",
            value |-> <<[profile |-> profileResult.value,
                         quote |-> quoteResult.value,
                         financials |-> financialsResult.value]>>]

\* the body of getStockByTicker after the three calls have settled
StockByTicker(profileResult, quoteResult, financialsResult) ==
  IF ~Usable(profileResult)
    THEN [kind |-> "return", value |-> <<>>]
    ELSE [kind |-> "return",
          value |-> <<[profile |-> profileResult.value,
                       quote |-> IF Usable(quoteResult) THEN quoteResult.value ELSE <<>>,
                       financials |-> IF Usable(financialsResult)
                                        THEN financialsResult.value ELSE <<>>]>>]

\* one call of getStockByTicker(ticker)
GetStockByTicker(ticker, p, q, f) ==
  /\ input' = [fn |-> "getStockByTicker", ticker |-> ticker,
               profile |-> p, quote |-> q, financials |-> f]
  /\ outcome' = StockByTicker(p, q, f)
  /\ UNCHANGED nonCallVars

StockNext ==
  \E ticker \in Tickers, p \in Settled("profile"), q \in Settled("quote"),
     f \in Settled("financials") : GetStockByTicker(ticker, p, q, f)

StockInit ==
  GatewayIdle /\ ProcIdle /\ VolInit /\ MockInit /\ RestInit /\ Aside
StockSpec == StockInit /\ [][StockNext]_vars

\* ------------------------------------------- ipWhitelistMiddleware

ClientIps == {"10.0.0.1", "10.0.0.2", "10.0.0.8", "10.0.0.9"}

\* process.env.ALLOWED_IPS: unset, or a text given by its comma-separated
\* pieces (the empty text has the one piece "")
AllowedIpsEnv ==
  {[set |-> FALSE, pieces |-> <<>>],
   [set |-> TRUE, pieces |-> <<"">>],
   [set |-> TRUE, pieces |-> <<"10.0.0.1">>],
   [set |-> TRUE, pieces |-> <<"10.0.0.1", "10.0.0.2">>],
   [set |-> TRUE, pieces |-> <<"10.0.0.8", "">>]}

\* process.env.ALLOWED_IPS?.split(",") || []
AllowedIps(env) == IF env.set THEN env.pieces ELSE <<>>

\* req.ip || req.socket.remoteAddress || "unknown"
ClientIp(ip, remoteAddress) ==
  IF ip # "" THEN ip ELSE IF remoteAddress # "" THEN remoteAddress ELSE "unknown"

\* the middleware: with an empty list it calls next(); with a list it
\* computes the client IP, logs that the check is not implemented and
\* calls next()
IpWhitelistMiddleware(env, ip, remoteAddress) ==
  /\ input' = [fn |-> "ipWhitelist", env |-> env, ip |-> ip,
               remoteAddress |-> remoteAddress, allowed |-> AllowedIps(env),
               clientIp |-> ClientIp(ip, remoteAddress)]
  /\ outcome' = IF Len(AllowedIps(env)) = 0
                  THEN [kind |-> "next", value |-> <<>>]
                  ELSE [kind |-> "next", value |-> <<>>]
  /\ UNCHANGED nonCallVars

IpWhitelistNext ==
  \E env \in AllowedIpsEnv, ip \in ClientIps \cup {""}, remoteAddress \in ClientIps \cup {""} :
    IpWhitelistMiddleware(env, ip, remoteAddress)

IpWhitelistInit ==
  GatewayIdle /\ ProcIdle /\ VolInit /\ MockInit /\ RestInit /\ Aside
IpWhitelistSpec == IpWhitelistInit /\ [][IpWhitelistNext]_vars

\* ----------------------------------- executeSafely and its wrappers

\* the wrappers and the label each passes on
Wrappers == {"wrapRedisCall", "wrapHttpCall", "wrapWsEmit"}
LabelOf(wrapper) ==
  CASE wrapper = "wrapRedisCall" -> "[Redis]"
    [] wrapper = "wrapHttpCall" -> "[HTTP]"
    [] wrapper = "wrapWsEmit" -> "[WebSocket]"

\* what the wrapped function does: returns / resolves with a value (<<>> is
\* undefined), throws, or rejects
FnBehaviours ==
  {[does |-> "returns", value |-> v] : v \in {<<>>, <<"response">>, <<"ok">>}}
  \cup {[does |-> d, value |-> <<>>] : d \in {"throws", "rejects"}}

\* the optional onError argument: absent, or a handler that returns true,
\* false or nothing, or that throws
OnErrors == {"absent", "true", "false", "void", "throws"}

\* executeSafely(label, fn, context, onError)
ExecuteSafely(label, fn, context, onError) ==
  IF fn.does = "returns"
    THEN [kind |-> "resolved", value |-> <<"result", fn.value>>, logged |-> <<>>]
    ELSE IF onError = "throws"
      THEN [kind |-> "rejected", value |-> <<>>, logged |-> <<>>]
      ELSE [kind |-> "resolved", value |-> <<>>,
            logged |-> IF onError # "true" THEN <<label, context, "failed">> ELSE <<>>]

\* one call through a wrapper
SafeCall(wrapper, fn, context, onError) ==
  /\ input' = [fn |-> "executeSafely", wrapper |-> wrapper, wrapped |-> fn,
               context |-> context, onError |-> onError]
  /\ outcome' = ExecuteSafely(LabelOf(wrapper), fn, context, onError)
  /\ UNCHANGED nonCallVars

SafeCallNext ==
  \E wrapper \in Wrappers, fn \in FnBehaviours, context \in {"", "connect"},
     onError \in OnErrors : SafeCall(wrapper, fn, context, onError)

SafeCallInit ==
  GatewayIdle /\ ProcIdle /\ VolInit /\ MockInit /\ RestInit /\ Aside
SafeCallSpec == SafeCallInit /\ [][SafeCallNext]_vars

\* ------------------------------------------------ MarketApiClient.call

ApiEndpoints == {"/api/quote", "/api/profile", "/financials", "/dividends"}

\* the body of an upstream response: not JSON, the JSON value null, or an
\* object with or without a success member and with data (<<>> is null)
ApiBodies ==
  {[json |-> "invalid", success |-> "absent", data |-> <<>>],
   [json |-> "null", success |-> "absent", data |-> <<>>],
   [json |-> "object", success |-> "absent", data |-> <<>>],
   [json |-> "object", success |-> "false", data |-> <<>>]}
  \cup {[json |-> "object", success |-> "true", data |-> d] : d \in {<<>>, <<"a">>, <<"b">>}}

\* what the fetch does: it resolves with a response, or it rejects because
\* the network failed or because the timeout timer aborted it
ApiFetches ==
  {[does |-> "rejects", value |-> <<>>, why |-> w] : w \in {"network", "timeout"}}
  \cup {[does |-> "returns", value |-> <<[status |-> st, body |-> b]>>, why |-> ""] :
          st \in {200, 201, 404, 500}, b \in ApiBodies}

\* response.ok
Ok(response) == response.status >= 200 /\ response.status <= 299

\* the statements after the fetch has settled, given what wrapHttpCall
\* resolved to
AfterFetch(wrapped) ==
  IF wrapped.value = <<>>
    THEN [kind |-> "threw", error |-> "ExternalApiError", value |-> <<>>]
    ELSE LET response == wrapped.value[2][1]
         IN IF ~Ok(response)
              THEN [kind |-> "threw", error |-> "ExternalApiError", value |-> <<>>]
              ELSE IF response.body.json # "object"
                \* response.json() throws, or result is null and result.success throws
                THEN [kind |-> "returned", error |-> "", value |-> <<>>]
                ELSE IF response.body.success = "true"
                  THEN [kind |-> "returned", error |-> "", value |-> response.body.data]
                  ELSE [kind |-> "threw", error |-> "ExternalApiError", value |-> <<>>]

\* mutant: the timer is cleared only once a response has passed the ok test
MarketApiCall_ClearsOnSuccessOnly(endpoint, fetched) ==
  LET wrapped == ExecuteSafely("[HTTP]", fetched, endpoint, "absent")
      settled == AfterFetch(wrapped)
  IN [kind |-> settled.kind, error |-> settled.error, value |-> settled.value,
      timer |-> IF wrapped.value # <<>> /\ Ok(wrapped.value[2][1])
                  THEN "cleared" ELSE "pending"]

\* call(endpoint): setTimeout, the wrapped fetch, clearTimeout, then the
\* checks on the response; wrapHttpCall resolves in every case, so
\* clearTimeout is always reached
MarketApiCall(endpoint, fetched) ==
  LET wrapped == ExecuteSafely("[HTTP]", fetched, endpoint, "absent")
      settled == AfterFetch(wrapped)
  IN [kind |-> settled.kind, error |-> settled.error, value |-> settled.value,
      timer |-> IF wrapped.kind = "resolved" THEN "cleared" ELSE "pending"]

ApiCall(endpoint, fetched) ==
  /\ input' = [fn |-> "call", endpoint |-> endpoint, fetched |-> fetched]
  /\ outcome' = MarketApiCall(endpoint, fetched)
  /\ UNCHANGED nonCallVars

ApiCallNext ==
  \E endpoint \in ApiEndpoints, fetched \in ApiFetches : ApiCall(endpoint, fetched)

ApiCallInit ==
  GatewayIdle /\ ProcIdle /\ VolInit /\ MockInit /\ RestInit /\ Aside
ApiCallSpec == ApiCallInit /\ [][ApiCallNext]_vars

\* ------------------------------------------------------- REST surface
\* gateway-service: ProxyController, quote / dividends / portfolio routers;
\* expressjs-server: bars router

DefaultLimit == 100
LatestDefaultLimit == 10

\* a JSON text: the members of one object in the order they are written;
\* a text may repeat a key
Member(k, ty, v) == [k |-> k, ty |-> ty, v |-> v]
JsonTexts ==
  { <<Member("success", "bool", "true"), Member("data", "number", "1")>>,
    <<Member("success", "bool", "false"), Member("error", "string", "not found")>>,
    <<Member("detail", "string", "Not Found")>>,
    <<Member("data", "number", "1"), Member("data", "number", "2")>> }

\* response.json(): the object the text denotes. A repeated key keeps the
\* position of its first occurrence and the value of its last
JsonParse(t) ==
  LET lastOf(i) == CHOOSE j \in DOMAIN t :
                   /\ t[j].k = t[i].k
                   /\ \A h \in DOMAIN t : t[h].k = t[i].k => h <= j
      marked == [i \in DOMAIN t |->
                   [k |-> t[i].k, ty |-> t[lastOf(i)].ty, v |-> t[lastOf(i)].v,
                    first |-> \A h \in 1..(i - 1) : t[h].k # t[i].k]]
      kept == SelectSeq(marked, LAMBDA m : m.first)
  IN [i \in DOMAIN kept |-> Member(kept[i].k, kept[i].ty, kept[i].v)]

\* res.json(value): the members of the object in insertion order
JsonStringify(value) == value

\* { success: false, error: <message> }
Envelope(message) ==
  <<Member("success", "bool", "false"), Member("error", "string", message)>>

\* what the upstream REST service does with a call: the connection fails,
\* it answers with a body that is not JSON, or it answers with JSON
UpStatuses == {200, 404, 422}
Upstreams ==
  {[kind |-> "unreachable", status |-> 0, text |-> <<>>],
   [kind |-> "notJson", status |-> 200, text |-> <<>>]}
  \cup [kind : {"json"}, status : UpStatuses, text : JsonTexts]

\* an upstream call: the path and the limit written into the query string
UpCall(path, limit) == <<[path |-> path, limit |-> limit]>>

Request(svc, method, path, limit, params, valid) ==
  [svc |-> svc, method |-> method, path |-> path, limit |-> limit,
   params |-> params, valid |-> valid]

\* one request served: the handler, its upstream call and its response
Served(request, handler, call, upstream, status, body) ==
  /\ rq' = request
  /\ route' = handler
  /\ upq' = call
  /\ ups' = upstream
  /\ rs' = [status |-> status, body |-> body]
  /\ UNCHANGED nonRestVars

\* res.status(response.status).json(await response.json())
Forward(request, handler, call, u) ==
  Served(request, handler, call, u, u.status, JsonStringify(JsonParse(u.text)))

\* the error middleware behind asyncHandler: an error thrown by a handler
\* is answered with the failure envelope
ErrorMiddleware(request, handler, call, u) ==
  \E st \in {502, 503, 504} :
    Served(request, handler, call, u, st, Envelope("Internal server error"))

\* validateParams / validateBody reject the request before the handler
ValidationRejects(request, handler) ==
  Served(request, handler, <<>>, NoUpstream, 400, Envelope("Validation failed"))

\* ProxyController.proxy: apiClient.proxyRequest is a bare fetch; a rejected
\* fetch and a body that is not JSON both end in the catch block
Proxy(method, u) ==
  LET request == Request("gateway-service", method, <<"proxy">>, "", TRUE, TRUE)
      call == UpCall(<<"proxy">>, "")
  IN CASE u.kind = "unreachable" ->
            Served(request, "proxy", call, u, 500, Envelope("fetch failed"))
       [] u.kind = "notJson" ->
            Served(request, "proxy", call, u, 500, Envelope("Unexpected token"))
       [] OTHER -> Forward(request, "proxy", call, u)

\* ProxyController.proxyGet / proxyPost: wrapHttpCall turns a rejected
\* fetch into null, which is thrown as "Upstream request failed"
ProxyWrapped(method, u) ==
  LET handler == IF method = "GET" THEN "proxyGet" ELSE "proxyPost"
      request == Request("gateway-service", method, <<"proxy">>, "", TRUE, TRUE)
      call == UpCall(<<"proxy">>, "")
  IN CASE u.kind = "unreachable" ->
            Served(request, handler, call, u, 500, Envelope("Upstream request failed"))
       [] u.kind = "notJson" ->
            Served(request, handler, call, u, 500, Envelope("Unexpected token"))
       [] OTHER -> Forward(request, handler, call, u)

\* callUpstream and the three handlers of createQuoteRouter
QuoteRoutes == {"previous-closes", "latest-eod", "quote"}
QuoteRoute(r, params, u) ==
  LET request == Request("gateway-service", "GET", <<"quote", r>>, "", params, TRUE)
      call == UpCall(<<"api", "quote", r>>, "")
  IN IF ~params
       THEN Served(request, r, <<>>, NoUpstream, 400,
                   Envelope(IF r = "quote" THEN "Missing symbol parameter"
                                           ELSE "Missing symbols parameter"))
       ELSE CASE u.kind = "unreachable" ->
                   Served(request, r, call, u, 502, Envelope("Upstream request failed"))
              [] u.kind = "notJson" -> ErrorMiddleware(request, r, call, u)
              [] OTHER -> Forward(request, r, call, u)

\* createDividendRouter: GET / and GET /:ticker
DividendRoutes == {"dividends", "dividends/:ticker"}
DividendRoute(r, valid, u) ==
  LET request == Request("gateway-service", "GET", <<r>>, "", TRUE, valid)
      call == UpCall(<<"api", "dividends">>, "")
  IN IF r = "dividends/:ticker" /\ ~valid
       THEN ValidationRejects(request, r)
       ELSE CASE u.kind = "unreachable" ->
                   Served(request, r, call, u, 502, Envelope("Upstream request failed"))
              [] u.kind = "notJson" -> ErrorMiddleware(request, r, call, u)
              [] OTHER -> Forward(request, r, call, u)

\* createPortfolioRouter: GET answers an empty portfolio, the writing
\* methods answer 501
PortfolioMethods == {"GET", "POST", "PATCH", "DELETE"}
PortfolioRoute(method, valid) ==
  LET request == Request("gateway-service", method, <<"portfolio">>, "", TRUE, valid)
  IN IF method = "GET"
       THEN Served(request, "portfolio", <<>>, NoUpstream, 200,
                   <<Member("success", "bool", "true"), Member("data", "array", "[]"),
                     Member("message", "string",
                            "Portfolio endpoint not yet implemented in market-api-service")>>)
       ELSE IF ~valid
         THEN ValidationRejects(request, "portfolio")
         ELSE Served(request, "portfolio", <<>>, NoUpstream, 501,
                     Envelope("Portfolio endpoint not yet implemented in market-api-service"))

\* the limit query parameter as written by the client ("" when absent)
LimitTexts == {"", "5", "0", "abc"}

\* parseInt: the set holding the number read, empty for NaN
ParseInt(text) ==
  CASE text = "5" -> {5}
    [] text = "0" -> {0}
    [] OTHER -> {}

\* parseInt(x) || d
OrDefault(parsed, d) ==
  IF parsed = {} \/ parsed = {0} THEN d ELSE CHOOSE n \in parsed : TRUE

\* `${limit}` in the upstream URL
NumberText(n) ==
  CASE n = 5 -> "5"
    [] n = LatestDefaultLimit -> "10"
    [] n = DefaultLimit -> "100"

\* the routes of createBarsRouter in registration order
BarsRoutes == << <<":symbol">>, <<":symbol", "range">>, <<"latest">> >>
BarsPaths == { <<"AAPL">>, <<"latest">>, <<"AAPL", "range">>, <<"latest", "range">> }

\* Express path matching: a :param segment matches any segment
Matches(pattern, path) ==
  /\ Len(pattern) = Len(path)
  /\ \A i \in DOMAIN pattern : pattern[i] = ":symbol" \/ pattern[i] = path[i]

\* the router runs the first registered route that matches
FirstMatch(routes, path) ==
  CHOOSE i \in DOMAIN routes :
    /\ Matches(routes[i], path)
    /\ \A j \in 1..(i - 1) : ~Matches(routes[j], path)

\* pythonClient.get(url) followed by res.json(data): the data is sent with
\* status 200; a failed call is thrown to the error middleware
PythonGet(request, handler, call, u, returns) ==
  IF u.kind = "json" /\ (u.status = 200 \/ returns)
    THEN Served(request, handler, call, u, 200, JsonStringify(JsonParse(u.text)))
    ELSE ErrorMiddleware(request, handler, call, u)

\* GET /api/bars/...
BarsRoute(path, limit, params, u, returns) ==
  LET request == Request("expressjs-server", "GET", <<"bars">> \o path, limit, params, TRUE)
      h == FirstMatch(BarsRoutes, path)
  IN CASE h = 1 ->
            PythonGet(request, "bars/:symbol",
                      UpCall(<<"bars", path[1]>>,
                             NumberText(OrDefault(ParseInt(limit), DefaultLimit))),
                      u, returns)
       [] h = 2 ->
            IF ~params
              THEN Served(request, "bars/:symbol/range", <<>>, NoUpstream, 400,
                          Envelope("start and end query parameters are required"))
              ELSE PythonGet(request, "bars/:symbol/range",
                             UpCall(<<"bars", path[1], "range">>, limit), u, returns)
       [] h = 3 ->
            PythonGet(request, "bars/latest",
                      UpCall(<<"bars", "latest">>,
                             NumberText(OrDefault(ParseInt(limit), LatestDefaultLimit))),
                      u, returns)

RestNext ==
  \/ \E m \in {"GET", "POST"}, u \in Upstreams : Proxy(m, u)
  \/ \E m \in {"GET", "POST"}, u \in Upstreams : ProxyWrapped(m, u)
  \/ \E r \in QuoteRoutes, params \in BOOLEAN, u \in Upstreams : QuoteRoute(r, params, u)
  \/ \E r \in DividendRoutes, valid \in BOOLEAN, u \in Upstreams : DividendRoute(r, valid, u)
  \/ \E m \in PortfolioMethods, valid \in BOOLEAN : PortfolioRoute(m, valid)
  \/ \E path \in BarsPaths, limit \in LimitTexts, params \in BOOLEAN,
        u \in Upstreams, returns \in BOOLEAN : BarsRoute(path, limit, params, u, returns)

\* the REST surface of both gateways, one request at a time
RestStart == GatewayIdle /\ ProcIdle /\ VolInit /\ MockInit /\ RestInit /\ Aside
RestSpec == RestStart /\ [][RestNext]_vars

LifeNext ==
  \/ EnvRedisDown
  \/ EnvRedisUp
  \/ RedisConnectionLost
  \/ RedisConnectAttempt
  \/ WsInitialize
  \/ ListenerSettles
  \/ HttpListen
  \/ HttpCloseDone
  \/ SignalCloseBegin
  \/ SignalCloseEnd
  \/ SignalExit
  \/ SignalDefault

\* The expressjs-server process from startServer() on. The runtime runs
\* every pending callback: connection attempts, the initialisation after
\* connect() resolved, the settling of the subscribe and listen() are
\* carried out when they stay possible; the environment and signals are
\* under no obligation.
LifeInit == StartServerInit /\ ProcIdle /\ VolInit /\ MockInit /\ RestInit /\ Aside
FairLifeSpec ==
  /\ LifeInit
  /\ [][LifeNext]_vars
  /\ WF_vars(RedisConnectAttempt)
  /\ WF_vars(WsInitialize)
  /\ WF_vars(ListenerSettles)
  /\ WF_vars(HttpListen)

BarNext ==
  \/ \E m \in BusMsgs(loop) : BusPublish(m)
  \/ ProcPoll
  \/ ProcFlushFailDb
  \/ \E k \in 0..MaxBus : ProcFlushFailLog(k)
  \/ ProcFlushOk
  \/ ProcRestart
  \/ \E dO \in OpenDraws, dC \in CloseDraws, uH \in SpreadDraws, dL \in SpreadDraws :
       MockBarPayload("aapl", dO, dC, uH, dL)

\* the two sources of bars: the bars loop of the Stream Processor and the
\* mock emitter's bar interval
BarInit ==
  GatewayIdle /\ loop = "bars" /\ ProcInit /\ VolInit /\ MockInit /\ RestInit /\ Aside
BarSpec ==
  /\ BarInit
  /\ [][BarNext]_vars


ProcNext ==
  \/ \E m \in BusMsgs(loop) : BusPublish(m)
  \/ ProcPoll
  \/ ProcFlushFailDb
  \/ \E k \in 0..MaxBus : ProcFlushFailLog(k)
  \/ ProcFlushOk
  \/ ProcRestart

\* one consumer loop of the Stream Processor
ProcStart ==
  GatewayIdle /\ loop \in Topics /\ ProcInit /\ VolInit /\ MockInit /\ RestInit /\ Aside
ProcSpec ==
  /\ ProcStart
  /\ [][ProcNext]_vars


BridgeNext ==
  \/ \E e \in LogEntries : XAdd(e)
  \/ \E ok \in BOOLEAN : SsStartBridgeSettle(ok)
  \/ BridgeRead
  \/ \E i \in 1..MaxEntries : BridgeDropMalformed(i)
  \/ \E i \in 1..MaxEntries : BridgeDispatchOk(i)
  \/ \E i \in 1..MaxEntries : BridgeDispatchFail(i)

Next ==
  \/ WsInitialize
  \/ \E ok \in BOOLEAN : WsListenerSettle(ok)
  \/ \E c \in Sockets : WsHandleConnection(c)
  \/ \E c \in Sockets, p \in Payloads : WsSubscribe(c, p)
  \/ \E c \in Sockets, p \in Payloads : WsUnsubscribe(c, p)
  \/ \E sym \in MsgSymbols : WsRedisMessage(sym)
  \/ WsRedisParseError
  \/ \E type \in PayloadTypes : WsBroadcast(type)
  \/ \E sym \in Tickers, type \in PayloadTypes : WsBroadcastToSymbol(sym, type)
  \/ WsCloseBegin
  \/ WsCloseEnd
  \/ WsCloseAgain
  \/ \E c \in Sockets : SsConnection(c)
  \/ \E c \in Sockets, p \in Payloads : SsSubscribe(c, p)
  \/ \E c \in Sockets, p \in Payloads : SsUnsubscribe(c, p)
  \/ \E sym \in Tickers, type \in PayloadTypes : SsEmitToSymbol(sym, type)
  \/ \E type \in PayloadTypes : SsEmitMarketUpdate(type)
  \/ \E ok \in BOOLEAN : SsStartBridgeSettle(ok)
  \/ SsStop
  \/ \E sym \in Tickers : MockBarTick(sym)
  \/ \E sym \in Tickers : MockTradeTick(sym)
  \/ \E c \in Sockets : Disconnect(c)

\* the gateway and its clients
Spec == Init /\ [][Next]_vars

\* The log and the bridge's read cycle. The read loop runs for as long as
\* the gateway does, and broadcast failures are transient (spec.md 7): a
\* dispatch that stays possible is eventually carried out.
FairBridgeSpec ==
  /\ Init
  /\ [][BridgeNext]_vars
  /\ WF_vars(BridgeRead)
  /\ \A i \in 1..MaxEntries :
       /\ WF_vars(BridgeDispatchOk(i))
       /\ WF_vars(BridgeDropMalformed(i))

\* ------------------------------------------------------------- claims

\* how each frame of the last step reached socket c
Vias(c) == [k \in DOMAIN sent[c] |-> sent[c][k].via]

\* the per-symbol dispatch operations of the gateway
SymbolOps == {"listener", "broadcastToSymbol", "emitToSymbol", "bridge"}

\* C1 as stated: when a trade for ticker A is dispatched, a client subscribed
\* only to A receives it and a client subscribed only to another ticker B
\* receives no event for it.
C1_RoomIsolation ==
  \A c1, c2 \in Sockets, A, B \in Tickers :
    ( /\ A # B
      /\ c1 \in Open /\ c2 \in Open
      /\ lastSub[c1] = {A} /\ lastSub[c2] = {B}
      /\ last.op \in SymbolOps /\ last.symbol = A /\ last.type = "trade" )
    => (sent[c1] # <<>> /\ sent[c2] = <<>>)

\* C1 amended: an emission to the room of a symbol reaches exactly the
\* connected clients subscribed to that symbol (broadcastToSymbol and
\* emitToSymbol deliver nothing else), while the Redis listener of
\* WebSocketService sends every trade to the room and then to all connected
\* clients, so a client subscribed only to another ticker receives one copy.
C1_RoomOnlyPlusListenerGlobal ==
  \A c \in Sockets :
    /\ last.op \in {"broadcastToSymbol", "emitToSymbol"} =>
         Vias(c) = IF c \in Open /\ last.symbol \in lastSub[c]
                     THEN <<"room">> ELSE <<>>
    /\ (last.op = "listener" /\ Truthy(last.symbol)) =>
         Vias(c) = IF c \in Open /\ last.symbol \in lastSub[c]
                     THEN <<"room", "all">>
                     ELSE IF c \in Open THEN <<"all">> ELSE <<>>

\* C1 witness: the listener dispatched a trade for A with one client
\* subscribed only to A and another only to B
C1_Witness ==
  \E c1, c2 \in Sockets, A, B \in Tickers :
    /\ A # B
    /\ lastSub[c1] = {A} /\ lastSub[c2] = {B}
    /\ last.op = "listener" /\ last.symbol = A
    /\ Vias(c1) = <<"room", "all">> /\ Vias(c2) = <<"all">>

\* C2: a connected client subscribed to ticker T is delivered every message
\* dispatched for T, in the step that dispatches it, and a step never
\* delivers anything but the message being dispatched (message number seq),
\* so the messages of one symbol arrive in dispatch order, none skipped.
C2_DeliveredInDispatchOrder ==
  \A c \in Sockets :
    /\ ( /\ last.op \in SymbolOps /\ Truthy(last.symbol)
         /\ c \in Open /\ last.symbol \in lastSub[c] )
       => \E k \in DOMAIN sent[c] :
            sent[c][k].symbol = last.symbol /\ sent[c][k].id = seq
    /\ \A k \in DOMAIN sent[c] :
         sent[c][k].name # "connected" =>
           (last.op # "none" /\ sent[c][k].id = seq)

\* C2 witness: a later message (not the first) for T reaches a subscriber
C2_Witness ==
  \E c \in Open :
    /\ seq >= 2
    /\ last.op = "listener" /\ last.symbol \in lastSub[c]
    /\ \E k \in DOMAIN sent[c] : sent[c][k].id = seq /\ sent[c][k].symbol = last.symbol

\* the ticker text the subscribe/unsubscribe handler reads from the frame
\* recorded in l
FrameText(l) ==
  IF impl = "ws"
    THEN WsSymbolText([kind |-> l.type, symbol |-> l.symbol])
    ELSE SsSymbol([kind |-> l.type, symbol |-> l.symbol])

FrameOps == {"subscribe", "unsubscribe"}

\* the sockets the last step sent at least one frame to
Recipients == {c \in Sockets : sent[c] # <<>>}

\* C3 as stated: after subscribe with a bare ticker string T or with
\* {symbol: T} the connection is a member of room symbol:<T>, which is the
\* room the per-symbol broadcast emits to for T.
C3_BothShapesJoinSymbolRoom ==
  (last.op = "subscribe" /\ Truthy(last.symbol)) =>
    /\ ("symbol:" \o last.symbol) \in rooms[last.sock]
    /\ RoomOf(last.symbol) \in rooms[last.sock]

\* C3 amended: after subscribe with a bare ticker string T the connection is
\* a member of the room the implementation's per-symbol broadcast emits to
\* for T (symbol:<T> in WebSocketService, <T> in SocketService), and that
\* broadcast reaches exactly the connected members of that room;
\* SocketService reads {symbol: T} to the same membership, WebSocketService
\* reads only the string form and joins symbol:[object Object] on an object.
C3_SubscribeJoinsBroadcastRoom ==
  /\ ( /\ last.op = "subscribe" /\ Truthy(last.symbol)
       /\ (last.type = "string" \/ impl = "ss") )
     => RoomOf(last.symbol) \in rooms[last.sock]
  /\ (last.op = "subscribe" /\ impl = "ws" /\ last.type = "object")
     => "symbol:[object Object]" \in rooms[last.sock]
  /\ last.op \in {"broadcastToSymbol", "emitToSymbol"}
     => Recipients = {c \in Open : RoomOf(last.symbol) \in rooms[c]}

\* C3 witness: SocketService has just handled subscribe {symbol: T}
C3_Witness ==
  /\ impl = "ss"
  /\ last.op = "subscribe" /\ last.type = "object" /\ Truthy(last.symbol)
  /\ last.symbol \in rooms[last.sock]

\* C4 as stated: the ticker is upper-cased before room naming, so subscribe
\* in any letter case joins, and unsubscribe in any letter case leaves, the
\* room of the upper-case ticker.
C4_UpperCasedRoom ==
  /\ (last.op = "subscribe" /\ last.type = "string")
     => RoomOf(toUpperCase(last.symbol)) \in rooms[last.sock]
  /\ (last.op = "unsubscribe" /\ last.type = "string")
     => RoomOf(toUpperCase(last.symbol)) \notin rooms[last.sock]

\* C4 amended: the room is named from the ticker exactly as the client spelt
\* it; a frame in another letter case joins or leaves a different room and
\* leaves the membership of the upper-case room as it was.
C4_ExactSpellingRoom ==
  (last.op \in FrameOps /\ last.type = "string") =>
    /\ (RoomOf(last.symbol) \in rooms[last.sock]) <=> (last.op = "subscribe")
    /\ toUpperCase(last.symbol) # last.symbol =>
         ( (RoomOf(toUpperCase(last.symbol)) \in rooms[last.sock])
             <=> (toUpperCase(last.symbol) \in lastSub[last.sock]) )

\* C4 witness: a client has just subscribed with "aapl" and is in the room
\* of "aapl" but not in the room of "AAPL"
C4_Witness ==
  /\ last.op = "subscribe" /\ last.type = "string" /\ last.symbol = "aapl"
  /\ RoomOf("aapl") \in rooms[last.sock]
  /\ RoomOf("AAPL") \notin rooms[last.sock]

\* C5: room membership is a set driven by the last frame: for the ticker
\* text T a handler reads from a frame, the connection is in the room of T
\* after a subscribe for T, out of it after an unsubscribe for T, and every
\* other step of a connected socket leaves that membership as it was (a
\* second subscribe adds nothing, an unsubscribe of a room not joined
\* removes nothing).
C5_MembershipFollowsLastFrame ==
  [][ \A c \in Sockets, T \in SubStrings \cup {"[object Object]"} :
        LET forT == last'.op \in FrameOps /\ last'.sock = c /\ FrameText(last') = T
        IN  (RoomOf(T) \in rooms'[c]) <=>
              IF forT THEN last'.op = "subscribe"
              ELSE sock'[c] = "open" /\ RoomOf(T) \in rooms[c] ]_vars

\* C5 witness: a socket in two rooms has just unsubscribed from one of them
C5_Witness ==
  /\ last.op = "unsubscribe" /\ Truthy(FrameText(last))
  /\ RoomOf(FrameText(last)) \notin rooms[last.sock]
  /\ rooms[last.sock] # {}

\* C6: a disconnected socket holds no room membership, is not counted in
\* connectedClients and is sent nothing by any later step, and the
\* disconnect of one socket leaves every other socket's state and rooms
\* as they were.
C6_DisconnectReleases ==
  [][ \A c \in Sockets :
        /\ sock'[c] = "closed" =>
             (sent'[c] = <<>> /\ rooms'[c] = {} /\ c \notin connectedClients')
        /\ (last'.op = "disconnect" /\ last'.sock = c /\ sock[c] = "open") =>
             \A d \in Sockets \ {c} : rooms'[d] = rooms[d] /\ sock'[d] = sock[d] ]_vars

\* C6 witness: after one socket disconnected, a dispatch reaches another
\* socket that is still in its room, and not the disconnected one
C6_Witness ==
  \E c, d \in Sockets :
    /\ sock[c] = "closed" /\ sock[d] = "open"
    /\ last.op \in SymbolOps
    /\ sent[d] # <<>> /\ sent[c] = <<>>
    /\ RoomOf(last.symbol) \in rooms[d]

\* C7 as stated: every accepted connection has been sent exactly one
\* connected frame, in every gateway implementation.
C7_GreetedOnceEverywhere ==
  \A c \in Sockets : sock[c] # "new" => greeted[c] = 1

\* C7 amended: WebSocketService sends every accepted connection exactly one
\* connected frame, in its connection handler; SocketService sends none.
C7_GreetedOnceByWebSocketService ==
  /\ impl = "ws" =>
       /\ \A c \in Sockets : greeted[c] = IF sock[c] = "new" THEN 0 ELSE 1
       /\ last.op = "connect" => sent[last.sock] = <<ConnectedFrame>>
  /\ impl = "ss" => \A c \in Sockets : greeted[c] = 0 /\ sent[c] # <<ConnectedFrame>>

\* C7 witness: WebSocketService has just accepted a connection
C7_Witness ==
  /\ impl = "ws" /\ last.op = "connect"
  /\ sent[last.sock] = <<ConnectedFrame>> /\ greeted[last.sock] = 1

C9_MockExcludesBridge == ~(mockStarted /\ bridge = "started")

\* C10: the bridge acknowledges an entry only when its dispatch succeeded
\* (or when it dropped the entry as malformed); a failed broadcast leaves
\* the entry unacknowledged and in the pending list; and, with the read
\* cycle running and broadcast failures transient, every entry of the log a
\* started bridge can read is eventually dispatched or dropped as malformed.
C10_AckAfterDispatchAndRetry ==
  /\ [](/\ acked = delivered \cup dropped
        /\ pending \cap acked = {}
        /\ \A i \in delivered : stream[i].ok
        /\ \A i \in dropped : ~stream[i].ok
        /\ \A i \in failed : i \in pending \/ i \in delivered)
  /\ [][\A i \in failed' \ failed : i \in pending' /\ i \notin acked']_vars
  /\ \A i \in 1..MaxEntries :
       (bridge = "started" /\ i <= Len(stream)) ~> (i \in delivered \cup dropped)

\* C10 witness: an entry whose broadcast failed was dispatched on a later
\* cycle and only then acknowledged
C10_Witness ==
  \E i \in 1..MaxEntries :
    i \in failed /\ i \in delivered /\ i \in acked /\ i \notin pending

\* C11 as stated: a malformed realtime message (invalid JSON, or a missing
\* or empty symbol) handled by the gateway's listener is logged and dropped:
\* the step that handles it emits no frame to any client and writes an
\* error line to the logger.
C11_MalformedLoggedAndDropped ==
  (last.op \in {"listener", "listenerError"} /\ ~Truthy(last.symbol)) =>
    (sent = NoFrames /\ logged)

\* C12: in a consumer loop the buffer always holds every valid message
\* polled since the committed offset (none is dropped, also after five or
\* more consecutive failures); a flush failure leaves the committed offset
\* and the batch as they were; the offset moves and the buffer is cleared
\* only in a step after which every message of the batch is in the table
\* and in the log; so every valid message below the committed offset is
\* stored and appended.
C12_CommitOnlyAfterFlush ==
  /\ [](/\ committed <= pos
        /\ buffer = SelectSeq(SubSeq(bus, committed + 1, pos), Valid)
        /\ \A k \in 1..committed :
             Valid(bus[k]) => bus[k] \in Range(table) /\ bus[k] \in Range(plog))
  /\ [][ /\ fails' > fails => (committed' = committed /\ buffer' = buffer)
         /\ committed' # committed =>
              /\ buffer' = <<>> /\ fails' = 0
              /\ \A m \in Range(buffer) : m \in Range(table') /\ m \in Range(plog') ]_vars

\* C12 witness: five consecutive flush failures, the batch still buffered
\* and its offsets uncommitted
C12_Witness ==
  /\ fails >= 5 /\ degraded
  /\ buffer # <<>> /\ committed < pos
  /\ Len(buffer) = pos - committed

\* the number of rows (or log records) of q equal to m
Copies(q, m) == Cardinality({k \in DOMAIN q : q[k] = m})

C14_VolumeIsPrefixSum ==
  vphase = "backfilled" =>
    \A i \in DOMAIN vrows :
      /\ vrows[i].volume =
           SumSize(vrows, {j \in DOMAIN vrows :
                             vrows[j].stock = vrows[i].stock /\ AtOrBefore(vrows, j, i)})
      /\ \A j \in DOMAIN vrows :
           (vrows[j].stock = vrows[i].stock /\ AtOrBefore(vrows, j, i))
             => vrows[j].volume <= vrows[i].volume

Delivering ==
  pc = "initialized" /\ io = "open" /\ listener = "on" /\ rconn = "ready"

\* the process is shutting down or gone
Stopping == exited \/ pc \in {"closing", "closed"}

\* C16 as stated: if Redis becomes and stays available (and the process is
\* not shut down), the gateway eventually delivers realtime events again
\* and keeps doing so, whatever connection failures came before.
C16_EventuallyResumes ==
  (<>[](redisUp /\ ~Stopping)) => <>[]Delivering

\* C17 as stated: the process never exits while the HTTP server's close is
\* still in progress.
C17_ExitAfterHttpClosed == exited => http # "closing"

\* the handlers that proxy to the upstream REST service
ProxyHandlers ==
  {"proxy", "proxyGet", "proxyPost"} \cup QuoteRoutes \cup DividendRoutes
    \cup {"bars/:symbol", "bars/:symbol/range", "bars/latest"}

\* C18 as stated: every failure response of a REST endpoint carries
\* {success: false, error: <string>} and a status in {400, 404, 502, 503, 504}.
C18_FailureEnvelope ==
  rs.status >= 400 =>
    /\ rs.status \in {400, 404, 502, 503, 504}
    /\ \E message \in {rs.body[i].v : i \in DOMAIN rs.body} :
         rs.body = Envelope(message)

\* C19 as stated: when the upstream answers a proxied request with a JSON
\* body, the response has the upstream's status and the upstream's JSON
\* body, on every proxy route.
C19_PassThrough ==
  (route \in ProxyHandlers /\ upq # <<>> /\ ups.kind = "json") =>
    /\ rs.status = ups.status
    /\ JsonParse(rs.body) = JsonParse(ups.text)

\* C20 as stated: GET /api/bars/latest is served by the latest-bars handler,
\* which without a limit parameter asks the upstream for
\* /bars/latest?limit=10; the per-symbol handler never serves it.
C20_LatestServedByLatestHandler ==
  rq.path = <<"bars", "latest">> =>
    /\ route = "bars/latest"
    /\ rq.limit = "" => upq = UpCall(<<"bars", "latest">>, "10")

\* C21 as stated: a configured URL takes precedence over host and port,
\* host and port are used only without a URL, and TLS is on exactly for a
\* rediss:// URL.
C21_UrlTakesPrecedence ==
  client # <<>> =>
    /\ rcfg.redisUrl # <<>> =>
         (client[1].from = "url" /\ client[1].endpoint = rcfg.redisUrl)
    /\ rcfg.redisUrl = <<>> =>
         (client[1].from = "hostPort" /\ client[1].endpoint = <<rcfg.redisHost>>)
    /\ client[1].tls <=> (rcfg.redisUrl # <<>> /\ rcfg.redisUrl[1] = "rediss")

\* C29: redisClient() is a singleton accessor. Over any number of calls at
\* most one client is constructed and connect() is started exactly once, on
\* the first call; every call returns that one instance, also a call made
\* after the connect attempt has failed.
C29_SingletonAccessor ==
  /\ made <= 1 /\ connects = made
  /\ (got # <<>>) => (made = 1 /\ client # <<>> /\ client[1].id = 1)
  /\ \A i \in DOMAIN got : got[i].id = 1
  /\ (got = <<>>) => (client = <<>> /\ made = 0)

\* a call made after the first connect attempt had failed
C29_Witness ==
  /\ Len(got) >= 2
  /\ \E i \in DOMAIN got : got[i].conn = "failed" /\ got[i].id = 1

\* C22: the three upstream calls of getStockByTicker fail independently. A
\* failed or empty profile gives null; otherwise the profile is returned
\* with quote and financials each either the data of its own call or null
\* when that call failed or came back empty; the operation never throws.
C22_BranchesFailIndependently ==
  input.fn = "getStockByTicker" =>
    /\ outcome.kind = "return"
    /\ ~Usable(input.profile) => outcome.value = <<>>
    /\ Usable(input.profile) =>
         /\ outcome.value # <<>>
         /\ outcome.value[1].profile = input.profile.value
         /\ outcome.value[1].quote =
              (IF Usable(input.quote) THEN input.quote.value ELSE <<>>)
         /\ outcome.value[1].financials =
              (IF Usable(input.financials) THEN input.financials.value ELSE <<>>)

\* the quote call rejected, the other two delivered
C22_Witness ==
  /\ input.fn = "getStockByTicker"
  /\ input.quote.status = "rejected"
  /\ Usable(input.profile) /\ Usable(input.financials)
  /\ outcome.kind = "return" /\ outcome.value # <<>>
  /\ outcome.value[1].quote = <<>>
  /\ outcome.value[1].financials = input.financials.value

\* C23 as stated: with a non-empty ALLOWED_IPS list a request from an IP
\* outside the list is rejected and does not reach the next handler; with
\* an empty list every request is passed on.
C23_WhitelistRestricts ==
  input.fn = "ipWhitelist" =>
    /\ input.allowed = <<>> => outcome.kind = "next"
    /\ (input.allowed # <<>> /\ input.clientIp \notin Range(input.allowed)) =>
         outcome.kind = "rejected"

\* C26 as stated: a safe-call wrapper never passes an exception on. For
\* every wrapped function and every optional onError handler its promise
\* resolves: to the function's result when the function succeeds, to null
\* when it throws or rejects, and then the failure is logged unless onError
\* returned true.
C26_NeverPropagates ==
  input.fn = "executeSafely" =>
    /\ outcome.kind = "resolved"
    /\ input.wrapped.does = "returns" =>
         (outcome.value = <<"result", input.wrapped.value>> /\ outcome.logged = <<>>)
    /\ input.wrapped.does # "returns" =>
         /\ outcome.value = <<>>
         /\ (outcome.logged # <<>>) <=> (input.onError # "true")

\* the upstream answered the call with a 2xx status
Answered2xx == input.fetched.does = "returns" /\ Ok(input.fetched.value[1])
\* ... and with a body that parses to an object
ParsedObject == Answered2xx /\ input.fetched.value[1].body.json = "object"

\* C25: MarketApiClient.call settles in one of three ways. It returns the
\* upstream data exactly when the upstream answered 2xx with success true;
\* it throws ExternalApiError when the request failed or timed out, the
\* status is not 2xx or the body says success is not true; it returns null
\* for every other exception (a body that does not parse to an object); and
\* in each case the timeout timer has been cleared.
C25_ThreeOutcomes ==
  input.fn = "call" =>
    /\ outcome.timer = "cleared"
    /\ (ParsedObject /\ input.fetched.value[1].body.success = "true") =>
         (outcome.kind = "returned" /\ outcome.value = input.fetched.value[1].body.data)
    /\ (~Answered2xx \/ (ParsedObject /\ input.fetched.value[1].body.success # "true")) =>
         (outcome.kind = "threw" /\ outcome.error = "ExternalApiError")
    /\ (Answered2xx /\ ~ParsedObject) =>
         (outcome.kind = "returned" /\ outcome.value = <<>>)
    /\ (outcome.kind = "returned" /\ outcome.value # <<>>) =>
         (ParsedObject /\ input.fetched.value[1].body.success = "true")

\* a request that timed out: ExternalApiError, timer cleared
C25_Witness ==
  /\ input.fn = "call" /\ input.fetched.does = "rejects"
  /\ input.fetched.why = "timeout"
  /\ outcome.kind = "threw" /\ outcome.timer = "cleared"

\* a connection attempt is outstanding
Retrying == rconn \in {"connecting", "reconnecting"} /\ ~exited

\* C27: before retry number r, for r in 1..10, the strategy waits
\* min(r * 100, 3000) ms, so the delays never decrease and never exceed
\* 3000 ms; at retry 11 it gives up with an error; after that no
\* reconnection attempt is made and the subscriber is never ready again.
C27_ReconnectDelays ==
  /\ [](Retrying =>
         /\ retries \in 0..(MaxRetries + 1)
         /\ retries \in 1..MaxRetries =>
              /\ ~ReconnectStrategy(retries).giveUp
              /\ ReconnectStrategy(retries).delay = Min(retries * 100, 3000)
              /\ ReconnectStrategy(retries).delay <= 3000
              /\ ReconnectStrategy(retries - 1).delay <= ReconnectStrategy(retries).delay
         /\ retries = MaxRetries + 1 => ReconnectStrategy(retries).giveUp)
  /\ [][(Retrying /\ rconn' = "ended" /\ pc' # "closed") =>
          (retries = MaxRetries + 1 /\ ~redisUp)]_vars
  /\ [][(Retrying /\ retries' > retries) => (retries <= MaxRetries /\ rconn' = rconn)]_vars
  /\ [][rconn = "ended" => (rconn' = "ended" /\ retries' = retries)]_vars

\* the strategy has given up after the 11th retry and Redis is back
C27_Witness ==
  rconn = "ended" /\ retries = MaxRetries + 1 /\ redisUp /\ pc = "noWebSocket"

\* C24 as stated: one dispatched message gives a client at most one event,
\* and a client subscribed to its ticker exactly one.
C24_AtMostOneEventPerClient ==
  \A c \in Sockets :
    (last.op \in SymbolOps /\ Truthy(last.symbol)) =>
      /\ Len(sent[c]) <= 1
      /\ (c \in Open /\ last.symbol \in lastSub[c]) => Len(sent[c]) = 1

\* the number of events a dispatch for its symbol gives socket c: one for a
\* connected member of the symbol's room, and one more from an emit to all
EventsDue(c) ==
  LET room == IF last.op = "bridge" THEN last.symbol ELSE RoomOf(last.symbol)
      member == c \in Open /\ room \in rooms[c]
      global == c \in Open /\ (last.op = "listener" \/ (last.op = "bridge" /\ broadcastGlobal))
  IN (IF member THEN 1 ELSE 0) + (IF global THEN 1 ELSE 0)

\* C24 amended: every emit call gives a client at most one event. A
\* per-symbol emit gives exactly one to each connected member of the
\* symbol's room; the Redis listener of WebSocketService makes two emit
\* calls per message, so a connected member of the room receives the same
\* message twice and every other connected client once.
C24_OneEventPerEmitCall ==
  \A c \in Sockets :
    (last.op \in SymbolOps /\ Truthy(last.symbol)) =>
      /\ Len(sent[c]) = EventsDue(c)
      /\ \A j, k \in DOMAIN sent[c] :
           /\ sent[c][j].id = seq /\ sent[c][j].symbol = last.symbol
           /\ j # k => sent[c][j].via # sent[c][k].via

\* the listener gave a member of the room the same message twice
C24_Witness ==
  \E c \in Open :
    /\ last.op = "listener" /\ Truthy(last.symbol)
    /\ WsRoom(last.symbol) \in rooms[c]
    /\ Len(sent[c]) = 2 /\ sent[c][1].id = sent[c][2].id

WithoutWebSocket == impl = "ws" /\ pc = "noWebSocket"

\* the Express app (the /api routes and /health) answers requests
Serving == http = "listening"

\* C30: when redisClient.connect() throws at startup, the error is logged, no
\* WebSocket service exists (no server object, no Redis listener, no client)
\* and no shutdown handler is installed (a signal ends the process by default,
\* without closing anything), and the HTTP server still starts listening and
\* keeps serving for as long as the process runs
C30_ListensWithoutWebSocket ==
  /\ [](WithoutWebSocket =>
          (io = "null" /\ listener = "off" /\ Open = {} /\ sent = NoFrames))
  /\ [][(pc = "starting" /\ pc' = "noWebSocket") => logged']_vars
  /\ [][WithoutWebSocket =>
          (pc' = "noWebSocket" /\ (Serving => Serving') /\ (exited' => http' = http))]_vars
  /\ (WithoutWebSocket ~> (Serving \/ exited))

\* the server listens although the Redis connection failed for good
C30_Witness ==
  WithoutWebSocket /\ Serving /\ ~exited /\ rconn = "ended" /\ io = "null"

====
